---- MODULE Spec2Model ----
(***************************************************************************)
(* A model of scaffold_generator.py (ScaffoldGenerator): discovery of the  *)
(* entities of app/models.py on the live-load path and on the fallback     *)
(* text-parsing path, relationship / foreign-key analysis, ownership       *)
(* classification, child resolution, route emission and the repair pass    *)
(* that writes missing foreign-key columns back to models.py.              *)
(*                                                                         *)
(* Text is modelled at two grains.  A name (class, table, column) is the   *)
(* sequence of its characters, so that endswith, lower, slicing,           *)
(* concatenation and substring tests are computed as Python computes them. *)
(* A line of models.py is a record [kind, name, toks]: kind says which     *)
(* declaration idiom starts the line, name is the identifier the idiom     *)
(* binds, toks are the lexical tokens that follow the opening parenthesis  *)
(* of db.Column( / db.relationship( up to the end of the line (closing     *)
(* parentheses included).  Regular expressions of the source become        *)
(* patterns over these tokens.                                             *)
(***************************************************************************)
EXTENDS Integers, Sequences, FiniteSets, TLC

(***************************************************************************)
(* Bounds of the model.                                                    *)
(***************************************************************************)
MaxEntities == 2

\* the number of executions of run() on one directory
MaxRuns == 2

(***************************************************************************)
(* Strings as character sequences.                                         *)
(***************************************************************************)
Empty == <<>>

Upper == <<"A","B","C","D","E","F","G","H","I","J","K","L","M",
           "N","O","P","Q","R","S","T","U","V","W","X","Y","Z">>

Lower == <<"a","b","c","d","e","f","g","h","i","j","k","l","m",
           "n","o","p","q","r","s","t","u","v","w","x","y","z">>

\* code-point order of the characters names are made of: A-Z < _ < a-z
Alphabet == Upper \o <<"_">> \o Lower

CharRank(c) == CHOOSE i \in 1..Len(Alphabet) : Alphabet[i] = c

\* str.lower() on one character
LowerChar(c) ==
    IF \E i \in 1..Len(Upper) : Upper[i] = c
    THEN Lower[CHOOSE i \in 1..Len(Upper) : Upper[i] = c]
    ELSE c

\* str.lower()
StrLower(s) == [i \in 1..Len(s) |-> LowerChar(s[i])]

\* str.endswith(suffix)
EndsWith(s, suffix) ==
    /\ Len(suffix) <= Len(s)
    /\ SubSeq(s, Len(s) - Len(suffix) + 1, Len(s)) = suffix

\* str.startswith(prefix)
StartsWith(s, prefix) ==
    /\ Len(prefix) <= Len(s)
    /\ SubSeq(s, 1, Len(prefix)) = prefix

\* s[:-1]
DropLast(s) == SubSeq(s, 1, Len(s) - 1)

\* the regular expression \w+ : a non-empty run of letters, digits, underscore
IsWord(s) ==
    /\ Len(s) > 0
    /\ \A i \in 1..Len(s) : s[i] \notin {".", ",", " ", "-", "(", ")", "'"}

\* s.split('.')
RECURSIVE SplitDot(_)
SplitDot(s) ==
    IF \A i \in 1..Len(s) : s[i] # "."
    THEN <<s>>
    ELSE LET p == CHOOSE i \in 1..Len(s) :
                      s[i] = "." /\ \A j \in 1..(i - 1) : s[j] # "."
         IN  <<SubSeq(s, 1, p - 1)>> \o SplitDot(SubSeq(s, p + 1, Len(s)))

\* a < b for str (lexicographic by code point)
RECURSIVE StrLess(_, _)
StrLess(a, b) ==
    IF Len(b) = 0 THEN FALSE
    ELSE IF Len(a) = 0 THEN TRUE
    ELSE IF a[1] # b[1] THEN CharRank(a[1]) < CharRank(b[1])
    ELSE StrLess(Tail(a), Tail(b))

Suffix_id == <<"_","i","d">>

\* Python None for an optional name
None == <<>>

(***************************************************************************)
(* Lexical tokens of the argument text of db.Column( and db.relationship(. *)
(***************************************************************************)
Tok(t, v) == [t |-> t, v |-> v]

LP == Tok("(", Empty)
RP == Tok(")", Empty)

TyInteger  == Tok("db.Integer", Empty)
TyString   == Tok("db.String", Empty)
TyText     == Tok("db.Text", Empty)
TyBoolean  == Tok("db.Boolean", Empty)
TyDateTime == Tok("db.DateTime", Empty)
TyDate     == Tok("db.Date", Empty)
TyFloat    == Tok("db.Float", Empty)
TyNumeric  == Tok("db.Numeric", Empty)

Num(digits) == Tok("digits", digits)
FKw         == Tok("db.ForeignKey", Empty)
Sq(s)       == Tok("'", s)            \* a single-quoted string '...'
Dq(s)       == Tok("dq", s)           \* a double-quoted string "..."
Word(s)     == Tok("word", s)         \* a bare identifier
PKTrue      == Tok("primary_key=True", Empty)
NullFalse   == Tok("nullable=False", Empty)
NullTrue    == Tok("nullable=True", Empty)
UniqueTrue  == Tok("unique=True", Empty)
DefUtcnow   == Tok("default=datetime.utcnow", Empty)
DefOther    == Tok("default=", Empty)          \* default=0, default=False
KwArg       == Tok("kwarg", Empty)             \* lazy=True, ondelete=...
KwBackref   == Tok("backref=", Empty)
KwBackPop   == Tok("back_populates=", Empty)
KwSecondary == Tok("secondary=", Empty)
DbBackref   == Tok("db.backref", Empty)

\* db.ForeignKey('<table>.<column>')
FKey(ref) == <<FKw, LP, Sq(ref), RP>>

(***************************************************************************)
(* Lines of models.py.                                                     *)
(***************************************************************************)
Line(kind, name, toks) == [kind |-> kind, name |-> name, toks |-> toks]

ClassLine(n)     == Line("class", n, <<>>)          \* class N(db.Model):
UserClassLine(n) == Line("class", n, <<Word(<<"UserMixin">>)>>)
TableLine(t)     == Line("tablename", t, <<>>)      \* __tablename__ = 't'
ColLine(n, toks) == Line("column", n, toks)         \* n = db.Column(<toks>
RelLine(n, toks) == Line("rel", n, toks)            \* n = db.relationship(<toks>
ContLine(toks)   == Line("cont", Empty, toks)       \* continuation of a call
Blank            == Line("blank", Empty, <<>>)
DefLine(n)       == Line("def", n, <<>>)            \* def n(self): ... body
ImportLine(text) == Line("import", <<text>>, <<>>)  \* from x import y
AssocLine(n)     == Line("assoc", n, <<>>)          \* n = db.Table(...)
CodeLine         == Line("code", Empty, <<>>)       \* any other statement

(***************************************************************************)
(* Generic helpers.                                                        *)
(***************************************************************************)
Range(f) == {f[i] : i \in DOMAIN f}

RECURSIVE Flatten(_)
Flatten(seqs) ==
    IF Len(seqs) = 0 THEN <<>> ELSE Head(seqs) \o Flatten(Tail(seqs))

\* the least index of a set of indices, 0 when the set is empty
FirstIndex(S) ==
    IF S = {} THEN 0 ELSE CHOOSE i \in S : \A j \in S : i <= j

\* 'text' in col_def, for a text that is one token
HasTok(toks, t) == \E i \in 1..Len(toks) : toks[i].t = t

\* number of '(' minus number of ')' in a token sequence
RECURSIVE ParenDelta(_)
ParenDelta(toks) ==
    IF Len(toks) = 0 THEN 0
    ELSE (IF Head(toks).t = "(" THEN 1 ELSE IF Head(toks).t = ")" THEN -1 ELSE 0)
         + ParenDelta(Tail(toks))

\* str.rstrip(')') on the token text
RECURSIVE RStripParen(_)
RStripParen(toks) ==
    IF Len(toks) > 0 /\ toks[Len(toks)].t = ")"
    THEN RStripParen(SubSeq(toks, 1, Len(toks) - 1))
    ELSE toks

IsQuoted(tok) == tok.t \in {"'", "dq"}

(***************************************************************************)
(* Field descriptors and _parse_column_definition.                         *)
(***************************************************************************)
Field(name, type, nullable, pk, default, unique, maxlen, skip) ==
    [name |-> name, type |-> type, nullable |-> nullable, primary_key |-> pk,
     default |-> default, unique |-> unique, max_length |-> maxlen,
     skip_in_form |-> skip]

\* re.search(r'db\.String\((\d+)\)', col_def): group(1), or Empty
StringLength(col_def) ==
    LET hit(i) == /\ i + 3 <= Len(col_def)
                  /\ col_def[i].t = "db.String"
                  /\ col_def[i + 1].t = "("
                  /\ col_def[i + 2].t = "digits"
                  /\ col_def[i + 3].t = ")"
    IN  IF \E i \in 1..Len(col_def) : hit(i)
        THEN col_def[(CHOOSE i \in 1..Len(col_def) :
                         hit(i) /\ \A j \in 1..(i - 1) : ~hit(j)) + 2].v
        ELSE Empty

\* the if / elif chain on substrings of col_def ('db.Date' is a substring of
\* 'db.DateTime', tested after it)
ParsedType(col_def) ==
    IF HasTok(col_def, "db.Integer") THEN "Integer"
    ELSE IF HasTok(col_def, "db.String") THEN "String"
    ELSE IF HasTok(col_def, "db.Text") THEN "Text"
    ELSE IF HasTok(col_def, "db.Boolean") THEN "Boolean"
    ELSE IF HasTok(col_def, "db.DateTime") THEN "DateTime"
    ELSE IF HasTok(col_def, "db.Date") \/ HasTok(col_def, "db.DateTime") THEN "Date"
    ELSE IF HasTok(col_def, "db.Float") THEN "Float"
    ELSE IF HasTok(col_def, "db.Numeric") THEN "Numeric"
    ELSE "String"

ParseColumnDefinition(col_name, col_def) ==
    Field(col_name,
          ParsedType(col_def),
          ~HasTok(col_def, "nullable=False"),
          HasTok(col_def, "primary_key=True"),
          IF HasTok(col_def, "default=datetime.utcnow") THEN "datetime.utcnow" ELSE "None",
          HasTok(col_def, "unique=True"),
          IF ParsedType(col_def) = "String" /\ HasTok(col_def, "db.String")
          THEN StringLength(col_def) ELSE Empty,
          HasTok(col_def, "db.ForeignKey"))

\* fields[col_name] = field_info on an insertion-ordered dict
DictSet(fields, f) ==
    IF \E i \in 1..Len(fields) : fields[i].name = f.name
    THEN [i \in 1..Len(fields) |-> IF fields[i].name = f.name THEN f ELSE fields[i]]
    ELSE Append(fields, f)

\* name in fields
HasField(fields, name) == \E i \in 1..Len(fields) : fields[i].name = name

(***************************************************************************)
(* _get_table_name_for_model.  self.models is a sequence of records        *)
(* [pyname, tablename, parsed, info, block]: pyname is what model.__name__ *)
(* evaluates to.                                                           *)
(***************************************************************************)
\* the last-resort guess of the table name
GuessTableName(model_name) ==
    IF EndsWith(model_name, <<"s">>) THEN StrLower(model_name) \o <<"e","s">>
    ELSE IF EndsWith(model_name, <<"y">>)
         THEN StrLower(DropLast(model_name)) \o <<"i","e","s">>
    ELSE StrLower(model_name) \o <<"s">>

GetTableNameForModel(model_name, models) ==
    IF \E i \in 1..Len(models) : models[i].pyname = model_name
    THEN models[CHOOSE i \in 1..Len(models) :
                    /\ models[i].pyname = model_name
                    /\ \A j \in 1..(i - 1) : models[j].pyname # model_name].tablename
    ELSE GuessTableName(model_name)

(***************************************************************************)
(* _parse_models_from_file: the text of one class.                         *)
(***************************************************************************)
\* every token of a stripped line, the ones before the argument text included
FullToks(line) ==
    CASE line.kind = "column" -> <<Word(line.name), Tok("= db.Column", Empty), LP>> \o line.toks
      [] line.kind = "rel"    -> <<Word(line.name), Tok("= db.relationship", Empty), LP>> \o line.toks
      [] line.kind = "class"  -> <<Word(line.name), LP>> \o line.toks \o <<RP>>
      [] line.kind = "def"    -> <<Word(line.name), LP, RP>>
      [] OTHER                -> line.toks

\* re.findall(class_pattern, content)
ClassNames(lines) ==
    LET cls == SelectSeq(lines, LAMBDA l : l.kind = "class")
    IN  [i \in 1..Len(cls) |-> cls[i].name]

ClassContentToEndOfFile(lines, class_name) ==
    LET start == FirstIndex({n \in 1..Len(lines) :
                                lines[n].kind = "class" /\ lines[n].name = class_name})
    IN  SubSeq(lines, start + 1, Len(lines))

\* re.search(class_pattern_detailed, content).group(1): the lines after the first
\* header of class_name up to the next line that starts a class
ClassContent(lines, class_name) ==
    LET start == FirstIndex({n \in 1..Len(lines) :
                                lines[n].kind = "class" /\ lines[n].name = class_name})
        next  == FirstIndex({n \in (start + 1)..Len(lines) : lines[n].kind = "class"})
        end   == IF next = 0 THEN Len(lines) ELSE next - 1
    IN  SubSeq(lines, start + 1, end)

ColDef(name, def) == [name |-> name, def |-> def]

\* the single-line pattern: name = db.Column( ... ) with the ) ending the line
SimpleColumnLines(content) ==
    LET hit == SelectSeq(content, LAMBDA l :
                   /\ l.kind = "column"
                   /\ Len(l.toks) > 0
                   /\ l.toks[Len(l.toks)].t = ")")
    IN  [i \in 1..Len(hit) |-> ColDef(hit[i].name, DropLast(hit[i].toks))]

\* the inner character loop of the rescan: count parentheses of one line, stopping
\* as soon as the count is zero
RECURSIVE CountLine(_, _)
CountLine(count, toks) ==
    IF Len(toks) = 0 THEN count
    ELSE LET c == IF Head(toks).t = "(" THEN count + 1
                  ELSE IF Head(toks).t = ")" THEN count - 1 ELSE count
         IN  IF c = 0 THEN 0 ELSE CountLine(c, Tail(toks))

\* the while loop over the following lines: the index j it ends with
RECURSIVE ScanEnd(_, _, _)
ScanEnd(lines, j, count) ==
    IF count > 0 /\ j <= Len(lines)
    THEN ScanEnd(lines, j + 1, CountLine(count, FullToks(lines[j])))
    ELSE j

\* the line-by-line rescan with the balanced-parenthesis count
RECURSIVE RescanColumnLines(_, _)
RescanColumnLines(lines, i) ==
    IF i > Len(lines) THEN <<>>
    ELSE IF lines[i].kind = "column"
    THEN LET j     == ScanEnd(lines, i + 1, 1 + ParenDelta(lines[i].toks))
             parts == lines[i].toks
                      \o Flatten([n \in 1..(j - i - 1) |-> FullToks(lines[i + n])])
         IN  <<ColDef(lines[i].name, RStripParen(parts))>> \o RescanColumnLines(lines, j)
    ELSE RescanColumnLines(lines, i + 1)

MinSimpleColumns == 3

ColumnLines(content) ==
    IF Len(SimpleColumnLines(content)) < MinSimpleColumns
    THEN RescanColumnLines(content, 1)
    ELSE SimpleColumnLines(content)

\* re.search(r"ForeignKey\(['\"](\w+)\.(\w+)['\"]\)", col_def): <<table, column>>
\* of the first match, <<>> when there is none
ForeignKeyMatch(col_def) ==
    LET hit(i) == /\ i + 3 <= Len(col_def)
                  /\ col_def[i].t = "db.ForeignKey"
                  /\ col_def[i + 1].t = "("
                  /\ IsQuoted(col_def[i + 2])
                  /\ Len(SplitDot(col_def[i + 2].v)) = 2
                  /\ \A k \in 1..2 : IsWord(SplitDot(col_def[i + 2].v)[k])
                  /\ col_def[i + 3].t = ")"
    IN  IF \E i \in 1..Len(col_def) : hit(i)
        THEN SplitDot(col_def[(CHOOSE i \in 1..Len(col_def) :
                                  hit(i) /\ \A j \in 1..(i - 1) : ~hit(j)) + 2].v)
        ELSE <<>>

OwnerTable == <<"u","s","e","r","s">>

FkRel(field_name, ref_table, ref_column) ==
    [field_name |-> field_name, ref_table |-> ref_table, ref_column |-> ref_column]

\* the loop over column_lines: fields, user_fk_field, non_user_fk_count and
\* foreign_key_relationships
RECURSIVE ParseColumns(_, _)
ParseColumns(cols, acc) ==
    IF Len(cols) = 0 THEN acc
    ELSE LET c    == Head(cols)
             fk   == IF HasTok(c.def, "db.ForeignKey") THEN ForeignKeyMatch(c.def) ELSE <<>>
             acc1 == [acc EXCEPT !.fields = DictSet(@, ParseColumnDefinition(c.name, c.def))]
             acc2 == IF fk = <<>> THEN acc1
                     ELSE IF fk[1] = OwnerTable
                          THEN [acc1 EXCEPT !.user_fk_field = c.name]
                     ELSE [acc1 EXCEPT !.non_user_fk_count = @ + 1,
                                       !.foreign_key_relationships =
                                           Append(@, FkRel(c.name, fk[1], fk[2]))]
         IN  ParseColumns(Tail(cols), acc2)

(***************************************************************************)
(* db.relationship( declarations of a class text.                          *)
(***************************************************************************)
Rel(name, target, backref, back_populates, m2m, secondary) ==
    [name |-> name, target_model |-> target, backref |-> backref,
     back_populates |-> back_populates, is_many_to_many |-> m2m,
     secondary_table |-> secondary]

\* the argument text the pattern db\.relationship\((.*?)\) captures for the
\* declaration starting at line i: everything up to the first ')' of the text
\* that follows (re.DOTALL lets it run over line ends); <<FALSE>> when no ')' follows
RelationshipDef(content, i) ==
    LET rest == content[i].toks
                \o Flatten([n \in 1..(Len(content) - i) |-> FullToks(content[i + n])])
        stop == FirstIndex({n \in 1..Len(rest) : rest[n].t = ")"})
    IN  IF stop = 0 THEN [found |-> FALSE, def |-> <<>>]
        ELSE [found |-> TRUE, def |-> SubSeq(rest, 1, stop - 1)]

\* re.search(r"'(\w+)'", rel_def)
TargetMatch(rel_def) ==
    LET i == FirstIndex({n \in 1..Len(rel_def) : rel_def[n].t = "'" /\ IsWord(rel_def[n].v)})
    IN  IF i = 0 THEN None ELSE rel_def[i].v

\* re.search(kw + r'\s*=\s*[\'"](\w+)[\'"]', rel_def) for kw backref / back_populates
KeywordQuotedMatch(rel_def, kw) ==
    LET hit(i) == /\ i + 1 <= Len(rel_def)
                  /\ rel_def[i].t = kw
                  /\ IsQuoted(rel_def[i + 1])
                  /\ IsWord(rel_def[i + 1].v)
    IN  IF \E i \in 1..Len(rel_def) : hit(i)
        THEN rel_def[(CHOOSE i \in 1..Len(rel_def) :
                         hit(i) /\ \A j \in 1..(i - 1) : ~hit(j)) + 1].v
        ELSE None

\* re.search(r'secondary\s*=\s*[\'"]?(\w+)[\'"]?', rel_def)
SecondaryMatch(rel_def) ==
    LET hit(i) == /\ i + 1 <= Len(rel_def)
                  /\ rel_def[i].t = "secondary="
                  /\ rel_def[i + 1].t \in {"'", "dq", "word"}
                  /\ IsWord(rel_def[i + 1].v)
    IN  IF \E i \in 1..Len(rel_def) : hit(i)
        THEN rel_def[(CHOOSE i \in 1..Len(rel_def) :
                         hit(i) /\ \A j \in 1..(i - 1) : ~hit(j)) + 1].v
        ELSE None

\* the loop over relationship_lines
RECURSIVE ParseRelationships(_, _)
ParseRelationships(content, i) ==
    IF i > Len(content) THEN <<>>
    ELSE IF content[i].kind = "rel" /\ RelationshipDef(content, i).found
    THEN LET rel_def == RelationshipDef(content, i).def
             target  == TargetMatch(rel_def)
             sec     == SecondaryMatch(rel_def)
         IN  (IF target = None THEN <<>>
              ELSE <<Rel(content[i].name, target,
                         KeywordQuotedMatch(rel_def, "backref="),
                         KeywordQuotedMatch(rel_def, "back_populates="),
                         sec # None, sec)>>)
             \o ParseRelationships(content, i + 1)
    ELSE ParseRelationships(content, i + 1)

(***************************************************************************)
(* The check for missing foreign keys (fallback path, lines 240-281).      *)
(***************************************************************************)
MissingFk(rel_name, target_model, column, target_table) ==
    [relationship_name |-> rel_name, target_model |-> target_model,
     missing_fk_column |-> column, target_table |-> target_table]

\* expected_fk_col
ExpectedFkCol(rel, target_table) ==
    IF rel.backref # None THEN rel.backref \o Suffix_id
    ELSE IF rel.back_populates # None THEN rel.back_populates \o Suffix_id
    ELSE target_table \o Suffix_id

\* a variant that looks for a column named after the table instead of a link
\* that references it
HasCorrespondingFkByColumnName(fkrels, target_table) ==
    \E i \in 1..Len(fkrels) : fkrels[i].field_name = target_table \o Suffix_id

\* has_corresponding_fk
HasCorrespondingFk(fkrels, target_table) ==
    \E i \in 1..Len(fkrels) : fkrels[i].ref_table = target_table

RECURSIVE CheckMissingFks(_, _, _, _)
CheckMissingFks(rels, fkrels, fields, models) ==
    IF Len(rels) = 0 THEN <<>>
    ELSE LET rel          == Head(rels)
             target_table == GetTableNameForModel(rel.target_model, models)
             expected     == ExpectedFkCol(rel, target_table)
             rest         == CheckMissingFks(Tail(rels), fkrels, fields, models)
         IN  IF rel.is_many_to_many THEN rest
             ELSE IF HasCorrespondingFk(fkrels, target_table) THEN rest
             ELSE IF ~HasField(fields, expected)
                  THEN <<MissingFk(rel.name, rel.target_model, expected, target_table)>>
                       \o rest
             ELSE rest

(***************************************************************************)
(* model_info and the element of self.models built for one parsed class.   *)
(***************************************************************************)
ModelInfo(name, table, fields, pk, user_fk, count, fkrels, rels, missing) ==
    [name |-> name, table_name |-> table, fields |-> fields, primary_key |-> pk,
     user_fk_field |-> user_fk, non_user_fk_count |-> count,
     foreign_key_relationships |-> fkrels, relationships |-> rels,
     missing_foreign_keys |-> missing]

NoInfo == ModelInfo(None, None, <<>>, None, None, 0, <<>>, <<>>, <<>>)

Id == <<"i","d">>

\* next((name for name, info in fields.items() if info.get('primary_key')), 'id')
FirstPrimaryKey(fields) ==
    LET i == FirstIndex({n \in 1..Len(fields) : fields[n].primary_key})
    IN  IF i = 0 THEN Id ELSE fields[i].name

\* type('Model', (), {...}).__name__ : the name given to type(), whatever
\* '__name__' the class dictionary holds
ParsedPyName == <<"M","o","d","e","l">>

ModelObj(pyname, tablename, parsed, info, block) ==
    [pyname |-> pyname, tablename |-> tablename, parsed |-> parsed,
     info |-> info, block |-> block]

\* has the class text a __tablename__ marker
HasTableName(content) == \E i \in 1..Len(content) : content[i].kind = "tablename"

\* one iteration of  for class_name in classes  that reaches self.models.append
ParsedModel(lines, class_name, models) ==
    LET content == ClassContent(lines, class_name)
        table   == content[FirstIndex({n \in 1..Len(content) :
                                                 content[n].kind = "tablename"})].name
        cols    == ParseColumns(ColumnLines(content),
                       [fields |-> <<>>, user_fk_field |-> None,
                        non_user_fk_count |-> 0, foreign_key_relationships |-> <<>>])
        rels    == ParseRelationships(content, 1)
        missing == CheckMissingFks(rels, cols.foreign_key_relationships,
                                   cols.fields, models)
    IN  ModelObj(ParsedPyName, table, TRUE,
                 ModelInfo(class_name, table, cols.fields, FirstPrimaryKey(cols.fields),
                           cols.user_fk_field, cols.non_user_fk_count,
                           cols.foreign_key_relationships, rels, missing),
                 <<>>)

\* _parse_models_from_file: the models of the class blocks, in the order of the
\* text, a block without __tablename__ yielding none
RECURSIVE ParseClasses(_, _, _)
ParseClasses(lines, names, ms) ==
    IF Len(names) = 0 THEN ms
    ELSE ParseClasses(lines, Tail(names),
                      IF HasTableName(ClassContent(lines, Head(names)))
                      THEN Append(ms, ParsedModel(lines, Head(names), ms))
                      ELSE ms)

ParseModelsFromFile(lines) == ParseClasses(lines, ClassNames(lines), <<>>)

(***************************************************************************)
(* extract_model_info on a live class.  What SQLAlchemy's mapper reports   *)
(* for a class is read off the declarations of its block: mapper.columns   *)
(* in declaration order, column.foreign_keys, mapper.relationships (the    *)
(* declared ones, then the ones a backref of another class creates on it). *)
(***************************************************************************)
\* the declarations of a block: each starting line with its continuation lines,
\* as [kind, name, args] with the closing parenthesis of the call removed
RECURSIVE Declarations(_, _)
Declarations(block, i) ==
    IF i > Len(block) THEN <<>>
    ELSE IF block[i].kind \in {"column", "rel"}
    THEN LET j    == ScanEnd(block, i + 1, 1 + ParenDelta(block[i].toks))
             args == block[i].toks
                     \o Flatten([n \in 1..(j - i - 1) |-> block[i + n].toks])
         IN  <<[kind |-> block[i].kind, name |-> block[i].name, args |-> DropLast(args)]>>
             \o Declarations(block, j)
    ELSE Declarations(block, i + 1)

\* the arguments at nesting depth 0 of a call's argument tokens
RECURSIVE TopLevel(_, _)
TopLevel(args, depth) ==
    IF Len(args) = 0 THEN <<>>
    ELSE LET t == Head(args)
         IN  IF t.t = "(" THEN TopLevel(Tail(args), depth + 1)
             ELSE IF t.t = ")" THEN TopLevel(Tail(args), depth - 1)
             ELSE (IF depth = 0 THEN <<t>> ELSE <<>>) \o TopLevel(Tail(args), depth)

\* column.foreign_keys: the 'table.column' of every db.ForeignKey( of the column
RECURSIVE ColumnForeignKeys(_)
ColumnForeignKeys(args) ==
    IF Len(args) < 3 THEN <<>>
    ELSE IF args[1].t = "db.ForeignKey" /\ args[2].t = "(" /\ IsQuoted(args[3])
         THEN <<args[3].v>> \o ColumnForeignKeys(Tail(args))
    ELSE ColumnForeignKeys(Tail(args))

\* column.type.__class__.__name__
LiveType(args) ==
    LET i == FirstIndex({n \in 1..Len(args) :
                            args[n].t \in {"db.Integer", "db.String", "db.Text", "db.Boolean",
                                          "db.DateTime", "db.Date", "db.Float", "db.Numeric"}})
    IN  CASE i = 0 -> "NullType"
          [] i > 0 /\ args[i].t = "db.Integer"  -> "Integer"
          [] i > 0 /\ args[i].t = "db.String"   -> "String"
          [] i > 0 /\ args[i].t = "db.Text"     -> "Text"
          [] i > 0 /\ args[i].t = "db.Boolean"  -> "Boolean"
          [] i > 0 /\ args[i].t = "db.DateTime" -> "DateTime"
          [] i > 0 /\ args[i].t = "db.Date"     -> "Date"
          [] i > 0 /\ args[i].t = "db.Float"    -> "Float"
          [] i > 0 /\ args[i].t = "db.Numeric"  -> "Numeric"

\* column.type.length
LiveLength(args) ==
    LET i == FirstIndex({n \in 1..Len(args) : args[n].t = "db.String"})
    IN  IF i > 0 /\ i + 2 <= Len(args) /\ args[i + 1].t = "(" /\ args[i + 2].t = "digits"
        THEN args[i + 2].v ELSE Empty

LiveField(name, args) ==
    LET top == TopLevel(args, 0)
        pk  == HasTok(top, "primary_key=True")
    IN  Field(name,
              LiveType(args),
              IF HasTok(top, "nullable=False") THEN FALSE
              ELSE IF HasTok(top, "nullable=True") THEN TRUE
              ELSE ~pk,
              pk,
              IF HasTok(top, "default=datetime.utcnow") THEN "datetime.utcnow"
              ELSE IF HasTok(top, "default=") THEN "other" ELSE "None",
              HasTok(top, "unique=True"),
              LiveLength(args),
              ColumnForeignKeys(args) # <<>>)

LiveColumnDecls(block) ==
    SelectSeq(Declarations(block, 1), LAMBDA d : d.kind = "column")

LiveRelDecls(block) ==
    SelectSeq(Declarations(block, 1), LAMBDA d : d.kind = "rel")

\* the first loop over mapper.columns: fields, primary_key, user_fk_field and
\* non_user_fk_count
OwnerColumn == OwnerTable \o <<".">> \o Id

RECURSIVE CountNonOwner(_)
CountNonOwner(fks) ==
    IF Len(fks) = 0 THEN 0
    ELSE (IF Head(fks) = OwnerColumn THEN 0 ELSE 1) + CountNonOwner(Tail(fks))

RECURSIVE LiveColumns(_, _)
LiveColumns(cols, acc) ==
    IF Len(cols) = 0 THEN acc
    ELSE LET c    == Head(cols)
             f    == LiveField(c.name, c.args)
             fks  == ColumnForeignKeys(c.args)
             acc1 == [acc EXCEPT !.fields = DictSet(@, f),
                                 !.primary_key = IF f.primary_key THEN c.name ELSE @,
                                 !.non_user_fk_count = @ + CountNonOwner(fks)]
             acc2 == IF \E i \in 1..Len(fks) : fks[i] = OwnerColumn
                     THEN [acc1 EXCEPT !.user_fk_field = c.name] ELSE acc1
         IN  LiveColumns(Tail(cols), acc2)

\* the second loop over mapper.columns: foreign_key_relationships
RECURSIVE LiveColumnFkRels(_, _)
LiveColumnFkRels(name, fks) ==
    IF Len(fks) = 0 THEN <<>>
    ELSE LET parts == SplitDot(Head(fks))
         IN  (IF Len(parts) = 2 /\ parts[1] # OwnerTable
              THEN <<FkRel(name, parts[1], parts[2])>> ELSE <<>>)
             \o LiveColumnFkRels(name, Tail(fks))

RECURSIVE LiveFkRels(_)
LiveFkRels(cols) ==
    IF Len(cols) = 0 THEN <<>>
    ELSE LiveColumnFkRels(Head(cols).name, ColumnForeignKeys(Head(cols).args))
         \o LiveFkRels(Tail(cols))

\* str() of the (name, kwargs) tuple that db.backref(name, ...) returns
BackrefTupleStr(name) == <<"(", "'">> \o name \o <<"'", ",", " ", "{", "}", ")">>

\* the value following keyword kw among the top-level arguments, with the index
\* of the keyword in args (0 when the keyword is not given)
KeywordIndex(args, kw) == FirstIndex({n \in 1..Len(args) : args[n].t = kw})

\* the name a backref= argument gives to the reverse relationship
BackrefName(args) ==
    LET i == KeywordIndex(args, "backref=")
    IN  IF i = 0 \/ i + 1 > Len(args) THEN None
        ELSE IF IsQuoted(args[i + 1]) THEN args[i + 1].v
        ELSE IF args[i + 1].t = "db.backref" /\ i + 3 <= Len(args) THEN args[i + 3].v
        ELSE None

\* getattr(rel, 'backref', None) as the f-string renders it
LiveBackref(args) ==
    LET i == KeywordIndex(args, "backref=")
    IN  IF i = 0 \/ i + 1 > Len(args) THEN None
        ELSE IF IsQuoted(args[i + 1]) THEN args[i + 1].v
        ELSE BackrefTupleStr(BackrefName(args))

KeywordValue(args, kw) ==
    LET i == KeywordIndex(args, kw)
    IN  IF i = 0 \/ i + 1 > Len(args) THEN None ELSE args[i + 1].v

\* one declared relationship as mapper.relationships reports it
LiveRel(d) ==
    Rel(d.name, d.args[1].v, LiveBackref(d.args), KeywordValue(d.args, "back_populates="),
        KeywordIndex(d.args, "secondary=") # 0, KeywordValue(d.args, "secondary="))

\* the relationships that backref= arguments of the class owner_name create on
\* the class target_name
ReverseRels(decls, owner_name, target_name) ==
    LET hit == SelectSeq(decls, LAMBDA d :
                   d.args[1].v = target_name /\ BackrefName(d.args) # None)
    IN  [i \in 1..Len(hit) |->
            Rel(BackrefName(hit[i].args), owner_name, None, hit[i].name,
                KeywordIndex(hit[i].args, "secondary=") # 0,
                KeywordValue(hit[i].args, "secondary="))]

LiveRelationships(m, models) ==
    LET own == LiveRelDecls(m.block)
    IN  [i \in 1..Len(own) |-> LiveRel(own[i])]
        \o Flatten([j \in 1..Len(models) |->
                       ReverseRels(LiveRelDecls(models[j].block), models[j].pyname, m.pyname)])

\* the check for missing foreign keys (live path, lines 449-490)
RECURSIVE LiveCheckMissingFks(_, _, _, _)
LiveCheckMissingFks(rels, fkrels, fields, models) ==
    IF Len(rels) = 0 THEN <<>>
    ELSE LET rel          == Head(rels)
             target_table == GetTableNameForModel(rel.target_model, models)
             expected     == ExpectedFkCol(rel, target_table)
             rest         == LiveCheckMissingFks(Tail(rels), fkrels, fields, models)
         IN  IF rel.is_many_to_many THEN rest
             ELSE IF HasCorrespondingFk(fkrels, target_table) THEN rest
             ELSE IF ~HasField(fields, expected)
                  THEN <<MissingFk(rel.name, rel.target_model, expected, target_table)>>
                       \o rest
             ELSE rest

LiveModelInfo(m, models) ==
    LET decls  == LiveColumnDecls(m.block)
        cols   == LiveColumns(decls, [fields |-> <<>>, primary_key |-> None,
                                      user_fk_field |-> None, non_user_fk_count |-> 0])
        fkrels == LiveFkRels(decls)
        rels   == LiveRelationships(m, models)
    IN  ModelInfo(m.pyname, m.tablename, cols.fields,
                  IF cols.primary_key = None THEN Id ELSE cols.primary_key,
                  cols.user_fk_field, cols.non_user_fk_count, fkrels, rels,
                  LiveCheckMissingFks(rels, fkrels, cols.fields, models))

\* extract_model_info
ExtractModelInfo(m, models) ==
    IF m.parsed THEN m.info ELSE LiveModelInfo(m, models)

(***************************************************************************)
(* _find_child_models.                                                     *)
(***************************************************************************)
Child(name, table, pk, fk_field, user_fk) ==
    [name |-> name, table_name |-> table, primary_key |-> pk,
     fk_field |-> fk_field, user_fk_field |-> user_fk]

\* the inner loop over foreign_key_relationships with its break: the child entry
\* of the first link to parent_table, none when no link refers to it
ChildEntry(info, parent_table) ==
    LET fks == info.foreign_key_relationships
        i   == FirstIndex({n \in 1..Len(fks) : fks[n].ref_table = parent_table})
    IN  IF i = 0 THEN <<>>
        ELSE <<Child(info.name, info.table_name, info.primary_key,
                     info.foreign_key_relationships[i].field_name, info.user_fk_field)>>

FindChildModels(parent_info, models) ==
    Flatten([i \in 1..Len(models) |->
                ChildEntry(ExtractModelInfo(models[i], models), parent_info.table_name)])

(***************************************************************************)
(* generate_forms_file.  The validation module is the sequence of its      *)
(* field rules, in the order of the fields.                                *)
(***************************************************************************)
\* sub in s
Contains(s, sub) ==
    \E i \in 0..(Len(s) - Len(sub)) : SubSeq(s, i + 1, i + Len(sub)) = sub

\* TYPE_MAPPING.get(type, 'StringField')
WtfType(type) ==
    CASE type = "String"   -> "StringField"
      [] type = "Text"     -> "TextAreaField"
      [] type = "Integer"  -> "IntegerField"
      [] type = "Float"    -> "FloatField"
      [] type = "Numeric"  -> "DecimalField"
      [] type = "Boolean"  -> "BooleanField"
      [] type = "Date"     -> "DateField"
      [] type = "DateTime" -> "DateTimeField"
      [] OTHER             -> "StringField"

Validator(v, max) == [v |-> v, max |-> max]

\* is_datetime_utc_default.  A parsed field stores the string
\* 'datetime.utcnow'; a live field stores the column default, whose arg is the
\* wrapper SQLAlchemy builds around a callable, not datetime.utcnow itself
IsDatetimeUtcDefault(f, parsed) ==
    f.type = "DateTime" /\ f.default # "None" /\ parsed /\ f.default = "datetime.utcnow"

\* the validators list of one field
Validators(f) ==
    LET lower == StrLower(f.name)
    IN  <<IF f.type = "Boolean" THEN Validator("Optional()", Empty)
          ELSE IF ~f.nullable THEN Validator("DataRequired()", Empty)
          ELSE Validator("Optional()", Empty)>>
        \o (IF f.max_length # Empty THEN <<Validator("Length", f.max_length)>> ELSE <<>>)
        \o (IF EndsWith(lower, <<"e","m","a","i","l">>)
               \/ Contains(lower, <<"e","m","a","i","l","_","a","d","d","r","e","s","s">>)
            THEN <<Validator("Email()", Empty)>>
            ELSE IF EndsWith(lower, <<"u","r","l">>)
                    \/ Contains(lower, <<"w","e","b","s","i","t","e">>)
            THEN <<Validator("URL()", Empty)>>
            ELSE <<>>)

\* wtf_type after the special handling of email, url and password names
FieldType(f) ==
    LET lower == StrLower(f.name)
    IN  IF EndsWith(lower, <<"e","m","a","i","l">>)
           \/ Contains(lower, <<"e","m","a","i","l","_","a","d","d","r","e","s","s">>)
        THEN "EmailField"
        ELSE IF EndsWith(lower, <<"u","r","l">>) \/ Contains(lower, <<"w","e","b","s","i","t","e">>)
        THEN "URLField"
        ELSE IF EndsWith(lower, <<"p","a","s","s","w","o","r","d">>)
                \/ Contains(lower, <<"p","w","d">>)
        THEN "PasswordField"
        ELSE WtfType(f.type)

FormRule(f) == [name |-> f.name, wtf_type |-> FieldType(f), validators |-> Validators(f)]

\* the test that makes the loop over the fields skip a field
SkippedInFormByKeyOnly(f, parsed) ==
    f.primary_key \/ IsDatetimeUtcDefault(f, parsed)

SkippedInForm(f, parsed) ==
    f.primary_key \/ f.skip_in_form \/ IsDatetimeUtcDefault(f, parsed)

\* field_lines
RECURSIVE FormRules(_, _)
FormRules(fields, parsed) ==
    IF Len(fields) = 0 THEN <<>>
    ELSE (IF SkippedInForm(Head(fields), parsed) THEN <<>> ELSE <<FormRule(Head(fields))>>)
         \o FormRules(Tail(fields), parsed)

(***************************************************************************)
(* generate_routes_file and generate_parent_child_routes.  A route is the  *)
(* sequence of the statements of its body, in the order they are emitted.  *)
(***************************************************************************)
Stmt(op, arg) == [op |-> op, arg |-> arg]

\* a variant that emits no check
SecurityCheckBlockOmitted(user_fk_field) == <<>>

\* security_check_block: compare item.<user_fk_field> with current_user.id, flash
\* and redirect to the list on mismatch
SecurityCheckBlock(user_fk_field) ==
    IF user_fk_field # None
    THEN <<Stmt("if item.owner != current_user.id: flash; return redirect", user_fk_field)>>
    ELSE <<>>

\* list_query
ListQuery(user_fk_field) ==
    IF user_fk_field # None
    THEN Stmt("items = query.filter_by(owner=current_user.id).all()", user_fk_field)
    ELSE Stmt("items = query.all()", None)

\* the body of create_<table>(), emitted either as code or as comment lines
CreateBody(user_fk_field) ==
    <<Stmt("form = Form()", None), Stmt("form.populate_obj(item)", None)>>
    \o (IF user_fk_field # None
        THEN <<Stmt("item.owner = current_user.id", user_fk_field)>> ELSE <<>>)
    \o <<Stmt("db.session.add(item)", None), Stmt("db.session.commit()", None)>>

\* a variant that comments the route out only from the second foreign key on
CreateRouteContentFromSecond(non_user_fk_count, user_fk_field) ==
    [commented |-> non_user_fk_count > 1, body |-> CreateBody(user_fk_field)]

\* create_route_content
CreateRouteContent(non_user_fk_count, user_fk_field) ==
    [commented |-> non_user_fk_count > 0, body |-> CreateBody(user_fk_field)]

\* view_route_child_queries
ChildQueries(children) ==
    [i \in 1..Len(children) |->
        Stmt("children = Child.query.filter_by(fk=pk).all()", children[i].table_name)]

\* child_table_singular_name
SingularName(child_table) ==
    IF EndsWith(child_table, <<"s">>) THEN DropLast(child_table) ELSE child_table

ParentChildRoute(parent_info, child) ==
    [path |-> SingularName(child.table_name),
     child |-> child.name,
     body |-> <<Stmt("parent = Parent.query.get_or_404(pk)", parent_info.primary_key),
                Stmt("form = Form()", None),
                Stmt("form.populate_obj(item)", None),
                Stmt("item.fk = pk", child.fk_field)>>
              \o (IF child.user_fk_field # None
                  THEN <<Stmt("item.owner = current_user.id", child.user_fk_field)>>
                  ELSE <<>>)
              \o <<Stmt("db.session.add(item)", None), Stmt("db.session.commit()", None)>>]

Load(pk) == Stmt("item = Model.query.get_or_404(pk)", pk)

RoutesContent(info, children) ==
    [model   |-> info.name,
     imports |-> <<info.name>>
                 \o [i \in 1..Len(children) |-> children[i].name],
     list    |-> <<ListQuery(info.user_fk_field), Stmt("render_template", None)>>,
     create  |-> CreateRouteContent(info.non_user_fk_count, info.user_fk_field),
     view    |-> <<Load(info.primary_key)>>
                 \o SecurityCheckBlock(info.user_fk_field)
                 \o ChildQueries(children)
                 \o <<Stmt("render_template", None)>>,
     edit    |-> <<Load(info.primary_key)>>
                 \o SecurityCheckBlock(info.user_fk_field)
                 \o <<Stmt("form = Form(obj=item)", None),
                      Stmt("form.populate_obj(item)", None),
                      Stmt("db.session.commit()", None),
                      Stmt("render_template", None)>>,
     delete  |-> <<Load(info.primary_key)>>
                 \o SecurityCheckBlock(info.user_fk_field)
                 \o <<Stmt("db.session.delete(item)", None),
                      Stmt("db.session.commit()", None)>>,
     add_child |-> [i \in 1..Len(children) |-> ParentChildRoute(info, children[i])]]

NoRoutes ==
    [model |-> None, imports |-> <<>>, list |-> <<>>,
     create |-> [commented |-> FALSE, body |-> <<>>],
     view |-> <<>>, edit |-> <<>>, delete |-> <<>>, add_child |-> <<>>]

\* a file of the output tree: app/<dir>/<file>
File(dir, file, routes) ==
    [dir |-> dir, file |-> file, routes |-> routes, rules |-> <<>>]

\* app/<dir>/forms.py
FormsFile(dir, rules) ==
    [dir |-> dir, file |-> "forms.py", routes |-> NoRoutes, rules |-> rules]

\* Path.write_text: create the file or replace its content
WriteFile(files, f) ==
    IF \E i \in 1..Len(files) : files[i].dir = f.dir /\ files[i].file = f.file
    THEN [i \in 1..Len(files) |->
             IF files[i].dir = f.dir /\ files[i].file = f.file THEN f ELSE files[i]]
    ELSE Append(files, f)

(***************************************************************************)
(* fix_missing_foreign_keys.  Indices are 1-based: Python's lines[i] is    *)
(* lines[i + 1] here, insert(insert_index, x) puts x at insert_index + 1.  *)
(***************************************************************************)
\* list.insert: x becomes the element at position pos
InsertAt(lines, pos, x) ==
    SubSeq(lines, 1, pos - 1) \o <<x>> \o SubSeq(lines, pos, Len(lines))

\* line.strip().startswith('class ')
StartsWithClass(line) == line.kind = "class"

\* class_start (0 when the class is not found)
ClassStart(lines, class_name) ==
    FirstIndex({n \in 1..Len(lines) :
                    lines[n].kind = "class" /\ lines[n].name = class_name})

\* class_end: the first later line for which  startswith('class ') and not
\* startswith('class ')  holds, else len(lines)
ClassEnd(lines, class_start) ==
    LET hit(i) == StartsWithClass(lines[i]) /\ ~StartsWithClass(lines[i])
    IN  IF \E i \in (class_start + 1)..Len(lines) : hit(i)
        THEN (CHOOSE i \in (class_start + 1)..Len(lines) :
                  hit(i) /\ \A j \in (class_start + 1)..(i - 1) : ~hit(j)) - 1
        ELSE Len(lines)

\* '= db.Column(' in lines[i]
IsColumnLine(line) == line.kind = "column"

\* the position at which the first new column is inserted
InsertIndex(lines, class_start, class_end) ==
    LET cols == {i \in (class_start + 1)..class_end : IsColumnLine(lines[i])}
        last == IF cols = {} THEN class_start
                ELSE CHOOSE i \in cols : \A j \in cols : j <= i
    IN  IF last > class_start THEN last + 1 ELSE class_start + 1

\* f"{column} = db.Column(" in line
LineDeclaresColumn(line, column) ==
    line.kind = "column" /\ EndsWith(line.name, column)

\* column_exists, over lines[class_start:class_end]
ColumnExists(lines, class_start, class_end, column) ==
    \E i \in class_start..class_end :
        i <= Len(lines) /\ LineDeclaresColumn(lines[i], column)

\* fk_line
FkLine(missing_fk) ==
    ColLine(missing_fk.missing_fk_column,
            <<TyInteger>> \o FKey(missing_fk.target_table \o <<".">> \o Id)
            \o <<NullFalse, RP>>)

\* for missing_fk in missing_fks
RECURSIVE InsertMissing(_, _, _, _, _)
InsertMissing(lines, missing_fks, class_start, class_end, insert_index) ==
    IF Len(missing_fks) = 0 THEN lines
    ELSE IF ColumnExists(lines, class_start, class_end, Head(missing_fks).missing_fk_column)
    THEN InsertMissing(lines, Tail(missing_fks), class_start, class_end, insert_index)
    ELSE InsertMissing(InsertAt(lines, insert_index, FkLine(Head(missing_fks))),
                       Tail(missing_fks), class_start, class_end, insert_index + 1)

FixModelLastFindingFirst(lines, info) ==
    LET class_start == ClassStart(lines, info.name)
        class_end   == ClassEnd(lines, class_start)
        fks         == info.missing_foreign_keys
    IN  IF Len(fks) = 0 \/ class_start = 0 THEN lines
        ELSE InsertMissing(lines, [j \in 1..Len(fks) |-> fks[Len(fks) + 1 - j]],
                           class_start, class_end,
                           InsertIndex(lines, class_start, class_end))

\* the body of  for model in self.models  for one model
FixModel(lines, info) ==
    LET class_start == ClassStart(lines, info.name)
        class_end   == ClassEnd(lines, class_start)
    IN  IF Len(info.missing_foreign_keys) = 0 \/ class_start = 0 THEN lines
        ELSE InsertMissing(lines, info.missing_foreign_keys, class_start, class_end,
                           InsertIndex(lines, class_start, class_end))

RECURSIVE FixModels(_, _, _)
FixModels(lines, models, i) ==
    IF i > Len(models) THEN lines
    ELSE FixModels(FixModel(lines, ExtractModelInfo(models[i], models)), models, i + 1)

\* the content fix_missing_foreign_keys writes to models.py
FixMissingForeignKeys(lines, models) == FixModels(lines, models, 1)

(***************************************************************************)
(* add_user_model.                                                         *)
(***************************************************************************)
UserName == <<"U","s","e","r">>

\* 'class User(UserMixin, db.Model):' in content
HasUserModel(lines) ==
    \E i \in 1..Len(lines) :
        /\ lines[i].kind = "class"
        /\ lines[i].name = UserName
        /\ lines[i].toks = <<Word(<<"UserMixin">>)>>

RequiredImports ==
    <<ImportLine("from flask_login import UserMixin"),
      ImportLine("from werkzeug.security import generate_password_hash, check_password_hash")>>

\* user_model_code
UserModelCode ==
    <<Blank, Blank,
      UserClassLine(UserName),
      TableLine(OwnerTable),
      ColLine(Id, <<TyInteger, PKTrue, RP>>),
      ColLine(<<"u","s","e","r","n","a","m","e">>,
              <<TyString, LP, Num(<<"6","4">>), RP, UniqueTrue, NullFalse, RP>>),
      ColLine(<<"p","a","s","s","w","o","r","d","_","h","a","s","h">>,
              <<TyString, LP, RP, RP>>),
      Blank,
      DefLine(<<"s","e","t","_","p","a","s","s","w","o","r","d">>), CodeLine,
      Blank,
      DefLine(<<"c","h","e","c","k","_","p","a","s","s","w","o","r","d">>), CodeLine,
      Blank>>

\* the content add_user_model leaves in models.py
AddUserModel(lines) ==
    IF HasUserModel(lines) THEN lines
    ELSE LET missing == SelectSeq(RequiredImports, LAMBDA r :
                            ~\E i \in 1..Len(lines) : lines[i] = r)
             imports == {i \in 1..Len(lines) : lines[i].kind = "import"}
             last    == IF imports = {} THEN 0
                        ELSE CHOOSE i \in imports : \A j \in imports : j <= i
             with    == IF Len(missing) = 0 THEN lines
                        ELSE SubSeq(lines, 1, last) \o missing \o <<Blank>>
                             \o SubSeq(lines, last + 1, Len(lines))
         IN  with \o UserModelCode

(***************************************************************************)
(* The definition sources the model runs on: models.py files made of the   *)
(* import preamble and of up to MaxEntities distinct class blocks.         *)
(***************************************************************************)
Preamble ==
    << ImportLine("from extensions import db"),
       ImportLine("from datetime import datetime") >>

BlockUser ==
    << UserClassLine(<<"U","s","e","r">>),
       TableLine(<<"u","s","e","r","s">>),
       ColLine(<<"i","d">>, <<TyInteger, PKTrue, RP>>),
       ColLine(<<"u","s","e","r","n","a","m","e">>, <<TyString, LP, Num(<<"6","4">>), RP, UniqueTrue, NullFalse, RP>>),
       ColLine(<<"p","a","s","s","w","o","r","d","_","h","a","s","h">>, <<TyString, LP, RP, RP>>) >>

BlockTask ==
    << ClassLine(<<"T","a","s","k">>),
       TableLine(<<"t","a","s","k","s">>),
       ColLine(<<"i","d">>, <<TyInteger, PKTrue, RP>>),
       ColLine(<<"t","i","t","l","e">>, <<TyString, LP, Num(<<"2","0","0">>), RP, NullFalse, RP>>),
       ColLine(<<"c","r","e","a","t","e","d","_","a","t">>, <<TyDateTime, NullFalse, DefUtcnow, RP>>),
       ColLine(<<"u","s","e","r","_","i","d">>, <<TyInteger, FKw, LP, Sq(<<"u","s","e","r","s",".","i","d">>), RP, NullFalse, RP>>),
       RelLine(<<"a","u","t","h","o","r">>, <<Sq(<<"U","s","e","r">>)>>),
       ContLine(<<KwBackref, DbBackref, LP, Sq(<<"t","a","s","k","s">>)>>),
       ContLine(<<KwArg, RP, RP>>),
       Blank,
       DefLine(<<"_","_","r","e","p","r","_","_">>),
       CodeLine >>

BlockCategory ==
    << ClassLine(<<"C","a","t","e","g","o","r","y">>),
       TableLine(<<"c","a","t","e","g","o","r","i","e","s">>),
       ColLine(<<"i","d">>, <<TyInteger, PKTrue, RP>>),
       ColLine(<<"n","a","m","e">>, <<TyString, LP, Num(<<"1","0","0">>), RP, UniqueTrue, NullFalse, RP>>),
       ColLine(<<"d","e","s","c","r","i","p","t","i","o","n">>, <<TyText, NullTrue, RP>>) >>

BlockProduct ==
    << ClassLine(<<"P","r","o","d","u","c","t">>),
       TableLine(<<"p","r","o","d","u","c","t","s">>),
       ColLine(<<"i","d">>, <<TyInteger, PKTrue, RP>>),
       ColLine(<<"p","r","i","c","e">>, <<TyNumeric, LP, Num(<<"1","0">>), Num(<<"2">>), RP, NullFalse, RP>>),
       ColLine(<<"i","n","_","s","t","o","c","k">>, <<TyBoolean, DefOther, NullFalse, RP>>),
       ColLine(<<"u","s","e","r","_","i","d">>, <<TyInteger, FKw, LP, Sq(<<"u","s","e","r","s",".","i","d">>), RP, NullFalse, RP>>),
       ColLine(<<"c","a","t","e","g","o","r","y","_","i","d">>, <<TyInteger, FKw, LP, Sq(<<"c","a","t","e","g","o","r","i","e","s",".","i","d">>), RP, NullTrue, RP>>),
       RelLine(<<"c","a","t","e","g","o","r","y">>, <<Sq(<<"C","a","t","e","g","o","r","y">>)>>),
       ContLine(<<KwBackref, DbBackref, LP, Sq(<<"p","r","o","d","u","c","t","s">>), KwArg, RP, RP>>) >>

BlockPerson ==
    << ClassLine(<<"P","e","r","s","o","n">>),
       TableLine(<<"p","e","o","p","l","e">>),
       ColLine(<<"i","d">>, <<TyInteger, PKTrue, RP>>),
       ColLine(<<"n","a","m","e">>, <<TyString, LP, Num(<<"6","4">>), RP, RP>>) >>

BlockPet ==
    << ClassLine(<<"P","e","t">>),
       TableLine(<<"p","e","t","s">>),
       ColLine(<<"i","d">>, <<TyInteger, PKTrue, RP>>),
       ColLine(<<"n","a","m","e">>, <<TyString, LP, Num(<<"6","4">>), RP, NullFalse, RP>>),
       ColLine(<<"p","e","r","s","o","n","_","i","d">>, <<TyInteger, FKw, LP, Sq(<<"p","e","o","p","l","e",".","i","d">>), RP, RP>>),
       ColLine(<<"v","e","t","_","i","d">>, <<TyInteger, FKw, LP, Sq(<<"p","e","o","p","l","e",".","i","d">>), RP, NullTrue, RP>>),
       RelLine(<<"o","w","n","e","r">>, <<Sq(<<"P","e","r","s","o","n">>), KwBackref, Sq(<<"p","e","t","s">>), RP>>) >>

BlockNote ==
    << ClassLine(<<"N","o","t","e">>),
       TableLine(<<"n","o","t","e","s">>),
       ColLine(<<"i","d">>, <<TyInteger, PKTrue, RP>>),
       ColLine(<<"t","a","s","k","_","i","d">>, <<TyInteger, FKw, LP, Sq(<<"t","a","s","k","s",".","i","d">>), RP, RP>>) >>

BlockTag ==
    << ClassLine(<<"T","a","g">>),
       TableLine(<<"t","a","g","s">>),
       ColLine(<<"i","d">>, <<TyInteger, PKTrue, RP>>),
       ColLine(<<"n","a","m","e">>, <<TyString, LP, Num(<<"3","0">>), RP, NullFalse, RP>>),
       ColLine(<<"u","s","e","r","_","i","d">>, <<TyInteger, FKw, LP, Sq(<<"u","s","e","r","s",".","i","d">>), RP, NullFalse, RP>>),
       RelLine(<<"c","r","e","a","t","o","r">>, <<Sq(<<"U","s","e","r">>), KwBackref, Sq(<<"u","s","e","r">>), RP>>) >>

BlockPost ==
    << AssocLine(<<"p","o","s","t","_","t","a","g","s">>),
       AssocLine(<<"p","o","s","t","_","p","i","n","s">>),
       ClassLine(<<"P","o","s","t">>),
       TableLine(<<"p","o","s","t","s">>),
       ColLine(<<"i","d">>, <<TyInteger, PKTrue, RP>>),
       ColLine(<<"t","i","t","l","e">>, <<TyString, LP, Num(<<"8","0">>), RP, NullFalse, RP>>),
       ColLine(<<"b","o","d","y">>, <<TyText, RP>>),
       RelLine(<<"t","a","g","s">>, <<Sq(<<"T","a","g">>), KwSecondary, Word(<<"p","o","s","t","_","t","a","g","s">>), KwBackref, Sq(<<"p","o","s","t","s">>), RP>>),
       RelLine(<<"p","i","n","s">>, <<Sq(<<"T","a","g">>), KwBackref, DbBackref, LP, Sq(<<"p","i","n","n","e","d">>), KwArg, RP, KwSecondary, Word(<<"p","o","s","t","_","p","i","n","s">>), RP>>) >>

BlockNode ==
    << ClassLine(<<"N","o","d","e">>),
       TableLine(<<"n","o","d","e","s">>),
       ColLine(<<"i","d">>, <<TyInteger, PKTrue, RP>>),
       ColLine(<<"l","a","b","e","l">>, <<TyString, LP, Num(<<"5","0">>), RP, RP>>),
       ColLine(<<"p","a","r","e","n","t","_","i","d">>, <<TyInteger, FKw, LP, Sq(<<"n","o","d","e","s",".","i","d">>), RP, RP>>),
       ColLine(<<"r","o","o","t","_","i","d">>, <<TyInteger, FKw, LP, Sq(<<"n","o","d","e","s",".","i","d">>), RP, NullTrue, RP>>) >>

BlockGadget ==
    << ClassLine(<<"G","a","d","g","e","t">>),
       TableLine(<<"g","a","d","g","e","t","s">>),
       ColLine(<<"i","d">>, <<TyInteger, PKTrue, RP>>),
       ColLine(<<"n","a","m","e">>, <<TyString, LP, Num(<<"4","0">>), RP, RP>>),
       ColLine(<<"b","i","g","_","w","i","d","g","e","t","s","_","i","d">>, <<TyInteger, RP>>),
       RelLine(<<"w","i","d","g","e","t","s">>, <<Sq(<<"W","i","d","g","e","t">>), RP>>) >>

BlockPart ==
    << ClassLine(<<"P","a","r","t">>),
       TableLine(<<"p","a","r","t","s">>),
       ColLine(<<"i","d">>, <<TyInteger, PKTrue, RP>>),
       ColLine(<<"c","o","d","e">>, <<TyString, LP, Num(<<"1","2">>), RP, NullFalse, RP>>),
       ColLine(<<"w","i","d","g","e","t","s","_","i","d">>, <<TyInteger, FKw, LP, Sq(<<"w","i","d","g","e","t","s",".","i","d">>), RP, NullFalse, RP>>),
       RelLine(<<"w","i","d","g","e","t">>, <<Sq(<<"W","i","d","g","e","t">>), RP>>) >>

BlockOrder ==
    << ClassLine(<<"O","r","d","e","r">>),
       TableLine(<<"o","r","d","e","r","s">>),
       ColLine(<<"i","d">>, <<TyInteger, PKTrue, RP>>),
       ColLine(<<"t","o","t","a","l">>, <<TyFloat, NullFalse, RP>>),
       ColLine(<<"m","e","m","o">>, <<TyText>>),
       ContLine(<<NullTrue, RP>>),
       RelLine(<<"c","u","s","t","o","m","e","r">>, <<Sq(<<"C","u","s","t","o","m","e","r">>), KwBackPop, Sq(<<"b","u","y","e","r">>), RP>>) >>

BlockDraft ==
    << ClassLine(<<"D","r","a","f","t">>),
       ColLine(<<"i","d">>, <<TyInteger, PKTrue, RP>>),
       ColLine(<<"t","e","x","t">>, <<TyText, RP>>) >>

\* two associations to undeclared classes, named Address and SMS
BlockAlert ==
    << ClassLine(<<"A","l","e","r","t">>),
       TableLine(<<"a","l","e","r","t","s">>),
       ColLine(<<"i","d">>, <<TyInteger, PKTrue, RP>>),
       ColLine(<<"b","o","d","y">>, <<TyText, NullFalse, RP>>),
       ColLine(<<"s","e","n","t">>, <<TyBoolean, DefOther, RP>>),
       RelLine(<<"a","d","d","r","e","s","s">>, <<Sq(<<"A","d","d","r","e","s","s">>), RP>>),
       RelLine(<<"c","h","a","n","n","e","l">>, <<Sq(<<"S","M","S">>), RP>>) >>

\* a second class that declares the table of Category
BlockTopic ==
    << ClassLine(<<"T","o","p","i","c">>),
       TableLine(<<"c","a","t","e","g","o","r","i","e","s">>),
       ColLine(<<"i","d">>, <<TyInteger, PKTrue, RP>>),
       ColLine(<<"l","a","b","e","l">>, <<TyString, LP, Num(<<"5","0">>), RP, NullFalse, RP>>),
       ColLine(<<"p","i","n","n","e","d">>, <<TyBoolean, NullFalse, RP>>) >>

BlockMemo ==
    << ClassLine(<<"M","e","m","o">>),
       TableLine(<<"m","e","m","o","s">>),
       ColLine(<<"i","d">>, <<TyInteger, PKTrue, RP>>),
       ColLine(<<"t","e","x","t">>, <<TyString, LP, Num(<<"8","0">>), RP, NullFalse>>) >>

BlockStep ==
    << ClassLine(<<"S","t","e","p">>),
       TableLine(<<"s","t","e","p","s">>),
       ColLine(<<"i","d">>, <<TyInteger, PKTrue, RP>>),
       ColLine(<<"t","e","x","t">>, <<TyString, LP, Num(<<"1","2","0">>), RP, NullFalse, RP>>),
       ColLine(<<"t","a","s","k","_","i","d">>, <<TyInteger, FKw, LP, Sq(<<"t","a","s","k","s",".","i","d">>), RP, NullFalse, RP>>) >>

Catalog ==
    << BlockUser,
       BlockTask,
       BlockCategory,
       BlockProduct,
       BlockPerson,
       BlockPet,
       BlockNote,
       BlockTag,
       BlockPost,
       BlockNode,
       BlockGadget,
       BlockPart,
       BlockOrder,
       BlockDraft,
       BlockAlert,
       BlockTopic,
       BlockMemo,
       BlockStep >>


\* the sequences of distinct catalog indices of length 1..MaxEntities
BlockChoices ==
    UNION {{c \in [1..n -> 1..Len(Catalog)] :
               \A i, j \in 1..n : i # j => c[i] # c[j]} : n \in 1..MaxEntities}

\* models.py: preamble, blocks, and the empty last line split('\n') yields for
\* a text that ends with a line end
SourceOf(choice) ==
    Preamble \o Flatten([i \in 1..Len(choice) |-> Catalog[choice[i]]]) \o <<Blank>>

(***************************************************************************)
(* State.                                                                  *)
(***************************************************************************)
VARIABLES
    source,     \* the lines of app/models.py
    present,    \* app/models.py exists
    loadResult, \* what exec_module(models.py) does in this environment
    pc,         \* the statement of run() / discover_models() to execute next
    models,     \* self.models
    classes,    \* _parse_models_from_file: the class names found
    k,          \* index of the running loop (classes while parsing, models after)
    files,      \* the files written under app/, in the order of their creation
    run,        \* the number of the current execution of run() on this directory
    log         \* every write_text so far, in order: who wrote what in which run

vars == <<source, present, loadResult, pc, models, classes, k, files, run, log>>

\* the live path is modelled for sources all of whose classes carry __tablename__
AllMarked(lines) ==
    \A n \in Range(ClassNames(lines)) : HasTableName(ClassContent(lines, n))

\* the classes declare pairwise different tables: SQLAlchemy raises while the
\* module is executed when a second class declares a table of the same name
DistinctTables(lines) ==
    LET tables == SelectSeq(lines, LAMBDA l : l.kind = "tablename")
    IN  \A a, b \in 1..Len(tables) : tables[a].name = tables[b].name => a = b

\* the text compiles: every parenthesis a line opens is closed; if not,
\* exec_module raises SyntaxError before it executes any statement
RECURSIVE OpenAtEnd(_, _)
OpenAtEnd(lines, n) ==
    IF n = 0 THEN 0 ELSE OpenAtEnd(lines, n - 1) + ParenDelta(FullToks(lines[n]))

Compiles(lines) == OpenAtEnd(lines, Len(lines)) = 0

\* exec_module returns, raises ImportError, or raises another Exception
LoadResults == {"ok", "ImportError", "Exception"}

Init ==
    /\ present \in BOOLEAN
    /\ IF present
       THEN /\ \E c \in BlockChoices : source = SourceOf(c)
            /\ loadResult \in {r \in LoadResults :
                                 /\ r = "ok" => AllMarked(source) /\ DistinctTables(source)
                                 /\ r # "Exception" => Compiles(source)}
       ELSE source = <<>> /\ loadResult = "ok"
    /\ pc = "discover"
    /\ models = <<>>
    /\ classes = <<>>
    /\ k = 0
    /\ files = <<>>
    /\ run = 1
    /\ log = <<>>

(***************************************************************************)
(* discover_models.                                                        *)
(***************************************************************************)
\* models.py does not exist: the error is printed, nothing is discovered
DiscoverMissing ==
    /\ pc = "discover"
    /\ ~present
    /\ pc' = "check"
    /\ UNCHANGED <<source, present, loadResult, models, classes, k, files, run, log>>

\* sorted(): insertion of name into a sorted sequence of names
RECURSIVE SortedInsert(_, _)
SortedInsert(sorted, n) ==
    IF Len(sorted) = 0 THEN <<n>>
    ELSE IF StrLess(n, Head(sorted)) THEN <<n>> \o sorted
    ELSE <<Head(sorted)>> \o SortedInsert(Tail(sorted), n)

RECURSIVE SortNames(_)
SortNames(names) ==
    IF Len(names) = 0 THEN <<>>
    ELSE SortedInsert(SortNames(Tail(names)), Head(names))

\* the class objects dir(models_module) yields, in the order of their names
LiveModels(lines) ==
    LET names == SortNames(ClassNames(lines))
    IN  [i \in 1..Len(names) |->
            LET content == ClassContent(lines, names[i])
            IN  ModelObj(names[i],
                         content[FirstIndex({n \in 1..Len(content) :
                                                 content[n].kind = "tablename"})].name,
                         FALSE, NoInfo, content)]

\* the import succeeds: every class with __tablename__ is appended to self.models
DiscoverLive ==
    /\ pc = "discover"
    /\ present /\ loadResult = "ok"
    /\ models' = LiveModels(source)
    /\ pc' = "check"
    /\ UNCHANGED <<source, present, loadResult, classes, k, files, run, log>>

LoadFailureCaughtIfImportError(result) == result = "ImportError"

\* the exception of exec_module is caught and the file is parsed as text:
\* except ImportError around exec_module, except Exception around the whole load
LoadFailureCaught(result) == result \in {"ImportError", "Exception"}

\* the import fails: _parse_models_from_file reads the text and finds the classes
BeginParse ==
    /\ pc = "discover"
    /\ present /\ LoadFailureCaught(loadResult)
    /\ classes' = ClassNames(source)
    /\ k' = 1
    /\ pc' = "parse"
    /\ UNCHANGED <<source, present, loadResult, models, files, run, log>>

\* one iteration of  for class_name in classes
ParseClass ==
    /\ pc = "parse"
    /\ k <= Len(classes)
    /\ models' = IF HasTableName(ClassContent(source, classes[k]))
                 THEN Append(models, ParsedModel(source, classes[k], models))
                 ELSE models
    /\ k' = k + 1
    /\ UNCHANGED <<source, present, loadResult, pc, classes, files, run, log>>

EndParse ==
    /\ pc = "parse"
    /\ k > Len(classes)
    /\ pc' = "check"
    /\ UNCHANGED <<source, present, loadResult, models, classes, k, files, run, log>>

(***************************************************************************)
(* run.                                                                    *)
(***************************************************************************)
\* if not self.models: return
NoModels ==
    /\ pc = "check"
    /\ models = <<>>
    /\ pc' = "done"
    /\ UNCHANGED <<source, present, loadResult, models, classes, k, files, run, log>>

TemplatesDir == <<"templates">>

\* the directory of models.py
AppDir == <<"app">>

ModelsFile == File(AppDir, "models.py", NoRoutes)

\* the record of one write_text: the run, the method that wrote, the position
\* in self.models of the model it wrote for (0 outside the loop over the
\* models), the file as written and, for models.py, the number of lines it
\* had and the lines written
Write(by, f, lines) ==
    [run |-> run, by |-> by,
     entity |-> IF pc \in {"forms", "routes", "init", "templates"} THEN k ELSE 0,
     dir |-> f.dir, file |-> f.file,
     routes |-> f.routes, rules |-> f.rules,
     before |-> Len(source), lines |-> lines]

GenerateBaseWithoutModels ==
    /\ pc = "check"
    /\ files' = Append(files, File(TemplatesDir, "base.html", NoRoutes))
    /\ log' = Append(log, Write("generate_base_template",
                                File(TemplatesDir, "base.html", NoRoutes), <<>>))
    /\ k' = 1
    /\ pc' = "forms"
    /\ UNCHANGED <<source, present, loadResult, models, classes, run>>

\* generate_base_template: written once, if absent
GenerateBase ==
    /\ pc = "check"
    /\ models # <<>>
    /\ IF \E i \in 1..Len(files) :
              files[i].dir = TemplatesDir /\ files[i].file = "base.html"
       THEN UNCHANGED <<files, log>>
       ELSE /\ files' = Append(files, File(TemplatesDir, "base.html", NoRoutes))
            /\ log' = Append(log, Write("generate_base_template",
                                        File(TemplatesDir, "base.html", NoRoutes), <<>>))
    /\ k' = 1
    /\ pc' = "forms"
    /\ UNCHANGED <<source, present, loadResult, models, classes, run>>

\* SQLAlchemy can configure the mappers: every table a foreign key names and
\* every class a relationship names is declared
Configurable(ms) ==
    \A i \in 1..Len(ms) :
        LET decls == Declarations(ms[i].block, 1)
        IN  \A d \in Range(decls) :
                IF d.kind = "column"
                THEN \A r \in Range(ColumnForeignKeys(d.args)) :
                         \E j \in 1..Len(ms) : ms[j].tablename = SplitDot(r)[1]
                ELSE \E j \in 1..Len(ms) : ms[j].pyname = d.args[1].v

\* extract_model_info(model) returns (it raises on a live class whose mappers
\* cannot be configured)
CanExtract == models[1].parsed \/ Configurable(models)

\* the exception of extract_model_info leaves run()
ExtractRaises ==
    /\ pc = "forms"
    /\ ~CanExtract
    /\ pc' = "raised"
    /\ UNCHANGED <<source, present, loadResult, models, classes, k, files, run, log>>

CurrentInfo == ExtractModelInfo(models[k], models)

GenerateForms ==
    /\ pc = "forms"
    /\ CanExtract
    /\ LET f == FormsFile(CurrentInfo.table_name,
                          FormRules(CurrentInfo.fields, models[k].parsed))
       IN  /\ files' = WriteFile(files, f)
           /\ log' = Append(log, Write("generate_forms_file", f, <<>>))
    /\ pc' = "routes"
    /\ UNCHANGED <<source, present, loadResult, models, classes, k, run>>

GenerateRoutes ==
    /\ pc = "routes"
    /\ LET f == File(CurrentInfo.table_name, "routes.py",
                     RoutesContent(CurrentInfo, FindChildModels(CurrentInfo, models)))
       IN  /\ files' = WriteFile(files, f)
           /\ log' = Append(log, Write("generate_routes_file", f, <<>>))
    /\ pc' = "init"
    /\ UNCHANGED <<source, present, loadResult, models, classes, k, run>>

GenerateInit ==
    /\ pc = "init"
    /\ LET f == File(CurrentInfo.table_name, "__init__.py", NoRoutes)
       IN  /\ files' = WriteFile(files, f)
           /\ log' = Append(log, Write("generate_blueprint_init", f, <<>>))
    /\ pc' = "templates"
    /\ UNCHANGED <<source, present, loadResult, models, classes, k, run>>

\* the files generate_templates writes, in the order it writes them (their
\* text is not modelled)
TemplateFiles(info) ==
    [i \in 1..5 |->
        File(TemplatesDir \o info.table_name,
             <<"list.html", "form.html", "view.html",
               "macros/forms.html", "macros/display.html">>[i],
             NoRoutes)]

RECURSIVE WriteAll(_, _)
WriteAll(fs, new) ==
    IF Len(new) = 0 THEN fs ELSE WriteAll(WriteFile(fs, Head(new)), Tail(new))

GenerateTemplatesThenRepair ==
    /\ pc = "templates"
    /\ files' = WriteAll(files, TemplateFiles(CurrentInfo))
    /\ log' = log \o [i \in 1..5 |->
                         Write("generate_templates", TemplateFiles(CurrentInfo)[i], <<>>)]
    /\ k' = k /\ pc' = "repair"
    /\ UNCHANGED <<source, present, loadResult, models, classes, run>>

\* generate_templates, and the step of  for model in self.models
GenerateTemplates ==
    /\ pc = "templates"
    /\ files' = WriteAll(files, TemplateFiles(CurrentInfo))
    /\ log' = log \o [i \in 1..5 |->
                         Write("generate_templates", TemplateFiles(CurrentInfo)[i], <<>>)]
    /\ IF k < Len(models)
       THEN k' = k + 1 /\ pc' = "forms"
       ELSE k' = k /\ pc' = "repair"
    /\ UNCHANGED <<source, present, loadResult, models, classes, run>>

WriteFailsAndRollsBack ==
    /\ pc \in {"forms", "routes", "init", "templates"}
    /\ CanExtract
    /\ files' = SelectSeq(files, LAMBDA f :
                     f.dir \notin {CurrentInfo.table_name,
                                   TemplatesDir \o CurrentInfo.table_name})
    /\ pc' = "raised"
    /\ UNCHANGED <<source, present, loadResult, models, classes, k, run, log>>

\* a write_text of the emission for self.models[k] raises (the filesystem
\* refuses it): the exception leaves run().  Within generate_templates the
\* first n files are written before the failing one.
WriteFails ==
    /\ pc \in {"forms", "routes", "init", "templates"}
    /\ CanExtract
    /\ \E n \in 0..4 :
           /\ n > 0 => pc = "templates"
           /\ files' = WriteAll(files, SubSeq(TemplateFiles(CurrentInfo), 1, n))
           /\ log' = log \o [i \in 1..n |->
                                Write("generate_templates", TemplateFiles(CurrentInfo)[i], <<>>)]
    /\ pc' = "raised"
    /\ UNCHANGED <<source, present, loadResult, models, classes, k, run>>

\* self.fix_missing_foreign_keys(): models.py is rewritten in every case
Repair ==
    /\ pc = "repair"
    /\ source' = FixMissingForeignKeys(source, models)
    /\ log' = Append(log, Write("fix_missing_foreign_keys", ModelsFile, source'))
    /\ pc' = "adduser"
    /\ UNCHANGED <<present, loadResult, models, classes, k, files, run>>

AddUserWritingAlways ==
    /\ pc = "adduser"
    /\ source' = AddUserModel(source)
    /\ log' = Append(log, Write("add_user_model", ModelsFile, source'))
    /\ pc' = "done"
    /\ UNCHANGED <<present, loadResult, models, classes, k, files, run>>

\* self.add_user_model(): models.py is rewritten unless it holds the User class
AddUser ==
    /\ pc = "adduser"
    /\ source' = AddUserModel(source)
    /\ log' = IF HasUserModel(source) THEN log
              ELSE Append(log, Write("add_user_model", ModelsFile, source'))
    /\ pc' = "done"
    /\ UNCHANGED <<present, loadResult, models, classes, k, files, run>>

\* the nesting depth of parentheses at the start of line i
RECURSIVE DepthBefore(_, _)
DepthBefore(lines, i) ==
    IF i <= 1 THEN 0
    ELSE DepthBefore(lines, i - 1)
         + (CASE lines[i - 1].kind \in {"column", "rel"} -> 1 + ParenDelta(lines[i - 1].toks)
              [] lines[i - 1].kind = "cont" -> ParenDelta(lines[i - 1].toks)
              [] OTHER -> 0)

\* Python can execute the text: every column statement binds an identifier and
\* stands outside the argument list of another call
Importable(lines) ==
    \A i \in 1..Len(lines) :
        lines[i].kind = "column" => IsWord(lines[i].name) /\ DepthBefore(lines, i) = 0

\* run() is executed again on the directory as the previous execution left it
Rerun ==
    /\ pc = "done"
    /\ run < MaxRuns
    /\ run' = run + 1
    /\ loadResult' = IF loadResult = "ok" /\ ~(Importable(source) /\ DistinctTables(source))
                     THEN "Exception" ELSE loadResult
    /\ pc' = "discover"
    /\ models' = <<>>
    /\ classes' = <<>>
    /\ k' = 0
    /\ UNCHANGED <<source, present, files, log>>

\* one execution of run() on a filesystem that accepts every write
Next ==
    \/ DiscoverMissing
    \/ DiscoverLive
    \/ BeginParse
    \/ ParseClass
    \/ EndParse
    \/ NoModels
    \/ GenerateBase
    \/ ExtractRaises
    \/ GenerateForms
    \/ GenerateRoutes
    \/ GenerateInit
    \/ GenerateTemplates
    \/ Repair
    \/ AddUser

Spec == Init /\ [][Next]_vars

\* the load either succeeds or raises: which exception it raises makes no
\* difference once the text parser has been entered, so that one exception
\* stands for both where the kind of the exception is not the question
InitEither == Init /\ loadResult # "ImportError"

SpecEither == InitEither /\ [][Next]_vars

\* one execution of run() on a filesystem that may refuse a write
NextFaulty == Next \/ WriteFails

SpecFaulty == InitEither /\ [][NextFaulty]_vars

\* up to MaxRuns executions of run(), one after the other, on one directory
NextRerun == Next \/ Rerun

SpecRerun == Init /\ [][NextRerun]_vars

(***************************************************************************)
(* Properties.                                                             *)
(***************************************************************************)
\* the entities whose descriptors exist in the current state
Extractable == Len(models) > 0 /\ (models[1].parsed \/ Configurable(models))

Entities == IF Extractable THEN 1..Len(models) ELSE {}

InfoOf(i) == ExtractModelInfo(models[i], models)

\* self.models as it was when the associations of entity i were analysed
ModelsAtAnalysis(i) == IF models[i].parsed THEN SubSeq(models, 1, i - 1) ELSE models

\* the table the analysis resolved for association r of entity i
ResolvedTable(i, r) == GetTableNameForModel(r.target_model, ModelsAtAnalysis(i))

\* the column name the analysis expects for association r of entity i
ExpectedColumn(i, r) ==
    IF r.backref # None THEN r.backref \o <<"_","i","d">>
    ELSE IF r.back_populates # None THEN r.back_populates \o <<"_","i","d">>
    ELSE ResolvedTable(i, r) \o <<"_","i","d">>

HasFinding(i, r) ==
    \E f \in Range(InfoOf(i).missing_foreign_keys) : f.relationship_name = r.name

LinkTargets(i, table) ==
    \E l \in Range(InfoOf(i).foreign_key_relationships) : l.ref_table = table

FieldNames(i) == {f.name : f \in Range(InfoOf(i).fields)}

\* C1: for every entity and every association of it that is not many-to-many, a
\* missing-foreign-key finding exists if and only if no foreign-key link of the
\* entity targets the association's resolved target table and the expected
\* column name is not a field of the entity.
C1_FindingIffNoLinkAndNoColumn ==
    \A i \in Entities : \A r \in Range(InfoOf(i).relationships) :
        ~r.is_many_to_many =>
            (HasFinding(i, r) <=>
                /\ ~LinkTargets(i, ResolvedTable(i, r))
                /\ ExpectedColumn(i, r) \notin FieldNames(i))

\* a finished run that analysed an association satisfied by a link although
\* its expected column is absent, and an association that has a finding
C1_Witness ==
    /\ pc = "done"
    /\ \E i \in Entities : \E r \in Range(InfoOf(i).relationships) :
           /\ ~r.is_many_to_many
           /\ LinkTargets(i, ResolvedTable(i, r))
           /\ ExpectedColumn(i, r) \notin FieldNames(i)
           /\ ~HasFinding(i, r)
    /\ \E i \in Entities : \E r \in Range(InfoOf(i).relationships) :
           /\ ~r.is_many_to_many
           /\ HasFinding(i, r)

\* the declarations of the class of entity i in the models file
BlockOf(i) == ClassContent(source, InfoOf(i).name)

\* the association declarations of entity i that carry a secondary= argument
SecondaryDeclarations(i) ==
    {l \in Range(BlockOf(i)) : l.kind = "rel" /\ HasTok(l.toks, "secondary=")}

FindingFor(i, rel_name) ==
    \E f \in Range(InfoOf(i).missing_foreign_keys) : f.relationship_name = rel_name

\* C2: an association whose declaration carries a secondary= argument never has a
\* missing-foreign-key finding, wherever the argument stands among the arguments.
C2_NoFindingForSecondary ==
    \A i \in Entities : \A l \in SecondaryDeclarations(i) : ~FindingFor(i, l.name)

\* a step of the repair pass
RepairStep == pc = "repair" /\ pc' = "adduser"

\* the index in a block of the last line of its last column declaration
\* (0 when the block declares no column)
LastColumnEnd(block) ==
    LET cols  == {j \in 1..Len(block) : block[j].kind = "column"}
        start == IF cols = {} THEN 0 ELSE CHOOSE j \in cols : \A h \in cols : h <= j
        ends  == {e \in start..Len(block) :
                      \A h \in (start + 1)..e : block[h].kind = "cont"}
    IN  IF start = 0 THEN 0 ELSE CHOOSE e \in ends : \A h \in ends : h <= e

\* the lines the repair pass may add for a list of findings
FkLines(missing_fks) == {FkLine(f) : f \in Range(missing_fks)}

\* new is old with lines for some of the findings added immediately after the
\* last column declaration of old, and nothing else changed
InsertedAfterLastColumn(old, new, missing_fks) ==
    LET n == Len(new) - Len(old)
        p == LastColumnEnd(old)
    IN  /\ n >= 0
        /\ new = SubSeq(old, 1, p) \o SubSeq(new, p + 1, p + n)
                   \o SubSeq(old, p + 1, Len(old))
        /\ \A j \in (p + 1)..(p + n) : new[j] \in FkLines(missing_fks)

\* C3: in a source that holds several entity blocks, the repair pass adds the
\* column lines of an entity's findings inside that entity's block,
\* immediately after the last column declaration the block had, and leaves the
\* blocks of all other entities unchanged.
C3_InsertedInOwningBlock ==
    [][(RepairStep /\ Len(models) > 1) =>
           \A i \in Entities :
               InsertedAfterLastColumn(ClassContent(source, InfoOf(i).name),
                                       ClassContent(source', InfoOf(i).name),
                                       InfoOf(i).missing_foreign_keys)]_vars

\* how many lines of a file equal a given line
Occurrences(lines, line) == Cardinality({j \in 1..Len(lines) : lines[j] = line})

\* in the block new, a line for the finding stands after the end of the last
\* column declaration of the block old and before every association of new
StandsBetweenColumnsAndAssociations(old, new, missing_fk) ==
    LET p == LastColumnEnd(old)
    IN  /\ SubSeq(new, 1, p) = SubSeq(old, 1, p)
        /\ \E j \in (p + 1)..Len(new) :
               /\ new[j] = FkLine(missing_fk)
               /\ \A h \in 1..Len(new) : new[h].kind = "rel" => j < h

\* C4: for an entity with a finding for column c referencing table t, the source
\* after the repair pass holds exactly one new line declaring c as an Integer
\* column with nullable=False referencing t.id, and the line stands after the
\* end of the entity's last pre-existing column declaration, also when that
\* declaration spans several lines, and before every association declaration
\* of the entity.
C4_OneNewLineAfterLastColumn ==
    [][RepairStep =>
           \A i \in Entities : \A f \in Range(InfoOf(i).missing_foreign_keys) :
               /\ Occurrences(source', FkLine(f)) = Occurrences(source, FkLine(f)) + 1
               /\ StandsBetweenColumnsAndAssociations(
                      ClassContent(source, InfoOf(i).name),
                      ClassContent(source', InfoOf(i).name), f)]_vars

\* a column of exactly that name is declared in the block of entity i
DeclaredInBlock(i, column) ==
    \E l \in Range(BlockOf(i)) : l.kind = "column" /\ l.name = column

\* the entities that have a finding whose line is the given one and whose block
\* does not declare the finding's column
OwnersLacking(line) ==
    {i \in Entities :
        \E f \in Range(InfoOf(i).missing_foreign_keys) :
            FkLine(f) = line /\ ~DeclaredInBlock(i, f.missing_fk_column)}

\* C5: the repair pass inserts the column of a finding exactly when no column of
\* exactly that name is declared in the block of the entity that owns the
\* finding; a column of that name in another entity's block, or a column whose
\* name only ends with that name, does not prevent the insertion.
C5_InsertedIffNotDeclaredInBlock ==
    [][RepairStep =>
           \A i \in Entities : \A f \in Range(InfoOf(i).missing_foreign_keys) :
               Occurrences(source', FkLine(f)) =
                   Occurrences(source, FkLine(f)) + Cardinality(OwnersLacking(FkLine(f)))]_vars

\* the entities declared in the source under a given class name
DeclaredAs(class_name) == {h \in Entities : InfoOf(h).name = class_name}

\* C6: for every association whose target entity is declared in the source, the
\* resolved target table is the table name that entity declares, wherever the
\* target is declared relative to the entity holding the association; the
\* pluralization guess is the resolved table only when the target entity is
\* not declared.
C6_ResolvedTableIsDeclaredTable ==
    \A i \in Entities : \A r \in Range(InfoOf(i).relationships) :
        IF DeclaredAs(r.target_model) # {}
        THEN \A h \in DeclaredAs(r.target_model) :
                 ResolvedTable(i, r) = InfoOf(h).table_name
        ELSE ResolvedTable(i, r) = GuessTableName(r.target_model)

\* the source is still as the analysis read it
SourceAsRead == pc \notin {"adduser", "done"}

\* the tables the foreign keys of a column declaration reference
ReferencedTables(d) == {SplitDot(ref)[1] : ref \in Range(ColumnForeignKeys(d.args))}

\* the column declarations of entity i that carry a foreign key
FkColumnDeclarations(i) ==
    {d \in Range(Declarations(BlockOf(i), 1)) :
        d.kind = "column" /\ ReferencedTables(d) # {}}

OwnerFkColumns(i) ==
    {d.name : d \in {e \in FkColumnDeclarations(i) : OwnerTable \in ReferencedTables(e)}}

OtherFkColumns(i) ==
    {d.name : d \in {e \in FkColumnDeclarations(i) : ReferencedTables(e) # {OwnerTable}}}

\* C7: for each entity, user_fk_field names a field exactly when that field is a
\* foreign-key column whose target table is users, and non_user_fk_count is the
\* number of the entity's foreign-key columns that target any other table.
C7_OwnerFieldAndCountFollowColumns ==
    SourceAsRead =>
        \A i \in Entities :
            /\ IF OwnerFkColumns(i) = {}
               THEN InfoOf(i).user_fk_field = None
               ELSE InfoOf(i).user_fk_field \in OwnerFkColumns(i)
            /\ InfoOf(i).non_user_fk_count = Cardinality(OtherFkColumns(i))

\* the route artifacts this execution of run() has written so far for entity i
RouteArtifacts(i) ==
    {w.routes : w \in {g \in Range(log) :
                          g.run = run /\ g.file = "routes.py" /\ g.entity = i}}

\* the artifact holds create_<table>() as code that adds and commits an item
ActiveCreate(routes) ==
    /\ ~routes.create.commented
    /\ \E j \in 1..Len(routes.create.body) :
           routes.create.body[j].op = "db.session.add(item)"

\* C8: an entity's route artifact holds an active create endpoint if and only if
\* the entity's non_user_fk_count is 0; with a count of at least 1 the create
\* endpoint is present only as comment text.
C8_ActiveCreateIffNoOtherFk ==
    \A i \in Entities : \A routes \in RouteArtifacts(i) :
        /\ ActiveCreate(routes) <=> InfoOf(i).non_user_fk_count = 0
        /\ InfoOf(i).non_user_fk_count >= 1 => routes.create.commented

\* a finished run that wrote an artifact with an active create endpoint for an
\* entity with count 0 and one with a commented endpoint for an entity with
\* count 1
C8_Witness ==
    /\ pc = "done"
    /\ \E i \in Entities : \E routes \in RouteArtifacts(i) :
           InfoOf(i).non_user_fk_count = 0 /\ ActiveCreate(routes)
    /\ \E i \in Entities : \E routes \in RouteArtifacts(i) :
           InfoOf(i).non_user_fk_count = 1 /\ routes.create.commented

\* the statements of a route that read, change or delete the loaded item
UseOps ==
    {"render_template", "children = Child.query.filter_by(fk=pk).all()",
     "form = Form(obj=item)", "form.populate_obj(item)", "db.session.commit()",
     "db.session.delete(item)"}

IsOwnerCheck(s) == s.op = "if item.owner != current_user.id: flash; return redirect"

\* the route loads the item, then compares its owner field with the current
\* user and redirects on mismatch, and only then uses the item
CheckedBeforeUse(body, user_fk_field) ==
    \E c \in 1..Len(body) :
        /\ IsOwnerCheck(body[c]) /\ body[c].arg = user_fk_field
        /\ \E l \in 1..(c - 1) : body[l].op = "item = Model.query.get_or_404(pk)"
        /\ \A j \in 1..Len(body) : body[j].op \in UseOps => c < j
        /\ \E j \in 1..Len(body) : body[j].op \in UseOps

NoOwnerCheck(body) == \A j \in 1..Len(body) : ~IsOwnerCheck(body[j])

\* C9: for an entity with user_fk_field set, the view, edit and delete routes
\* each compare the loaded item's owner field with the current user and redirect
\* on mismatch before they read, change or delete the item, and the list route
\* selects only the current user's items; for an entity without user_fk_field
\* none of these checks is emitted and the list route selects all items.
C9_OwnershipChecks ==
    \A i \in Entities : \A routes \in RouteArtifacts(i) :
        LET u == InfoOf(i).user_fk_field
        IN  IF u # None
            THEN /\ CheckedBeforeUse(routes.view, u)
                 /\ CheckedBeforeUse(routes.edit, u)
                 /\ CheckedBeforeUse(routes.delete, u)
                 /\ routes.list[1] =
                        Stmt("items = query.filter_by(owner=current_user.id).all()", u)
            ELSE /\ NoOwnerCheck(routes.view)
                 /\ NoOwnerCheck(routes.edit)
                 /\ NoOwnerCheck(routes.delete)
                 /\ routes.list[1] = Stmt("items = query.all()", None)

\* a finished run that wrote the routes of an entity with an owner field whose
\* routes check ownership, and the routes of an entity without one that has
\* child routes
C9_Witness ==
    /\ pc = "done"
    /\ \E i \in Entities : \E routes \in RouteArtifacts(i) :
           /\ InfoOf(i).user_fk_field # None
           /\ CheckedBeforeUse(routes.delete, InfoOf(i).user_fk_field)
    /\ \E i \in Entities : \E routes \in RouteArtifacts(i) :
           /\ InfoOf(i).user_fk_field = None
           /\ NoOwnerCheck(routes.delete)
           /\ Len(routes.add_child) > 0

\* the links of entity h that reference the table of entity i, in order
LinksTo(h, i) ==
    SelectSeq(InfoOf(h).foreign_key_relationships,
              LAMBDA l : l.ref_table = InfoOf(i).table_name)

\* the entities other than i that hold a link to the table of entity i
ChildrenOf(i) == {h \in Entities \ {i} : Len(LinksTo(h, i)) > 0}

\* C10: for a parent entity, the child resolver returns exactly the entities
\* other than the parent that hold at least one foreign-key link to the
\* parent's table, each once, with the field of its first such link.
C10_ChildrenAreOtherEntitiesWithLink ==
    \A i \in Entities :
        LET found == FindChildModels(InfoOf(i), models)
        IN  /\ {c.name : c \in Range(found)} = {InfoOf(h).name : h \in ChildrenOf(i)}
            /\ \A a, b \in 1..Len(found) : found[a].name = found[b].name => a = b
            /\ \A c \in Range(found) : \A h \in ChildrenOf(i) :
                   InfoOf(h).name = c.name => c.fk_field = LinksTo(h, i)[1].field_name

\* the artifact writes of execution r of run(): every write but those of
\* models.py
ArtifactWrites(r) == {w \in Range(log) : w.run = r /\ w.file # "models.py"}

\* the per-entity directories execution r wrote artifacts into
EntityDirs(r) == {w.dir : w \in {v \in ArtifactWrites(r) : v.file = "routes.py"}}

SecondRunDone == pc = "done" /\ run = 2

\* C11: when run() has been executed a second time on the directory as the first
\* execution left it, the second execution has written artifacts for the same
\* set of entities as the first, and each artifact it wrote has the content the
\* first execution wrote to the same file.
C11_SecondRunWritesTheSame ==
    SecondRunDone =>
        /\ EntityDirs(2) = EntityDirs(1)
        /\ \A w2 \in ArtifactWrites(2) : \E w1 \in ArtifactWrites(1) :
               /\ w1.dir = w2.dir /\ w1.file = w2.file
               /\ w1.routes = w2.routes /\ w1.rules = w2.rules

\* the live load has succeeded on the source and its entities can be extracted
LiveExtracted ==
    /\ loadResult = "ok" /\ SourceAsRead
    /\ pc \notin {"discover", "raised"}
    /\ Extractable /\ ~models[1].parsed

FieldSet(info) == {f.name : f \in Range(info.fields)}

FieldOf(info, name) == CHOOSE f \in Range(info.fields) : f.name = name

\* two descriptors of one entity agree on the field set, on each field's type,
\* nullability and primary-key flag, on the primary-key field and on the owner
\* field
SameDescriptor(a, b) ==
    /\ FieldSet(a) = FieldSet(b)
    /\ \A n \in FieldSet(a) :
           /\ FieldOf(a, n).type = FieldOf(b, n).type
           /\ FieldOf(a, n).nullable = FieldOf(b, n).nullable
           /\ FieldOf(a, n).primary_key = FieldOf(b, n).primary_key
    /\ a.primary_key = b.primary_key
    /\ a.user_fk_field = b.user_fk_field

\* C12: for a source the live load processes, the descriptors extracted from the
\* live classes and the descriptors the text parser yields on the same source
\* describe the same entities with the same fields, per field the same type,
\* nullability and primary-key flag, and per entity the same primary-key field
\* and owner field.
C12_PathsYieldSameDescriptors ==
    LiveExtracted =>
        LET parsed == ParseModelsFromFile(source)
        IN  /\ {InfoOf(i).name : i \in Entities} = {m.info.name : m \in Range(parsed)}
            /\ \A i \in Entities : \A m \in Range(parsed) :
                   m.info.name = InfoOf(i).name => SameDescriptor(InfoOf(i), m.info)

\* the rule lists of the forms.py this execution of run() has written so far
\* for entity i
FormArtifacts(i) ==
    {w.rules : w \in {g \in Range(log) :
                         g.run = run /\ g.file = "forms.py" /\ g.entity = i}}

\* the names of the columns of entity i whose declaration carries a foreign key
FkColumnNames(i) == {d.name : d \in FkColumnDeclarations(i)}

\* C13: on either extraction path, every field of a descriptor whose column
\* carries a foreign key, to users or to any other table, has skip_in_form set,
\* and the forms.py written for the entity holds no rule for such a field.
C13_FkFieldsSkippedInForms ==
    SourceAsRead =>
        \A i \in Entities :
            LET info  == InfoOf(i)
                fk    == FkColumnNames(i)
                forms == FormArtifacts(i)
            IN  \A f \in Range(info.fields) :
                    f.name \in fk =>
                        /\ f.skip_in_form
                        /\ \A rules \in forms :
                               \A j \in 1..Len(rules) : rules[j].name # f.name

\* forms.py has been written, with at least one rule, for an entity that has a
\* foreign-key field to users and one to another table
C13_Witness ==
    /\ pc = "routes"
    /\ \E i \in Entities :
           LET info == InfoOf(i)
               fk   == {f \in Range(info.fields) : f.name \in FkColumnNames(i)}
           IN  /\ \E f \in fk : f.name = info.user_fk_field
               /\ \E f \in fk : f.name # info.user_fk_field
               /\ \E rules \in FormArtifacts(i) : Len(rules) > 0

\* the association declarations of entity i, continuation lines included
AssociationDeclarations(i) ==
    {d \in Range(Declarations(BlockOf(i), 1)) : d.kind = "rel"}

\* the inverse name an association declares: the name given to backref=, as a
\* string or as the first argument of db.backref(), else the name given to
\* back_populates=
DeclaredInverse(d) ==
    IF BackrefName(d.args) # None THEN BackrefName(d.args)
    ELSE KeywordValue(d.args, "back_populates=")

\* C14: the column name a finding expects is the association's declared inverse
\* name followed by "_id" when the association declares an inverse name, and
\* the resolved target table name followed by "_id" otherwise.
C14_ExpectedColumnFromInverseOrTable ==
    SourceAsRead =>
        \A i \in Entities : \A f \in Range(InfoOf(i).missing_foreign_keys) :
            \A d \in AssociationDeclarations(i) :
                d.name = f.relationship_name =>
                    f.missing_fk_column =
                        IF DeclaredInverse(d) # None
                        THEN DeclaredInverse(d) \o Suffix_id
                        ELSE f.target_table \o Suffix_id

\* the source declares no class of that name
Undeclared(name) == \A j \in 1..Len(source) : source[j].kind = "class" => source[j].name # name

\* the plural the rule forms from a lower-cased entity name
PluralOfLowerCased(l) ==
    IF EndsWith(l, <<"s">>) THEN l \o <<"e","s">>
    ELSE IF EndsWith(l, <<"y">>) THEN DropLast(l) \o <<"i","e","s">>
    ELSE l \o <<"s">>

\* C15: the table name resolved for an entity name that no class of the source
\* declares is the lower-cased name with a trailing "s" extended by "es", else
\* a trailing "y" replaced by "ies", else with "s" appended.
C15_GuessPluralizesLowerCasedName ==
    SourceAsRead =>
        \A i \in Entities : \A f \in Range(InfoOf(i).missing_foreign_keys) :
            Undeclared(f.target_model) =>
                f.target_table = PluralOfLowerCased(StrLower(f.target_model))

\* models.py is missing, or discovery has ended without a model
NothingDiscovered == ~present \/ (pc \notin {"discover", "parse"} /\ models = <<>>)

\* C16: when models.py is missing or discovery finds no entity, the execution of
\* run() ends before generation: it writes no base template and no per-entity
\* artifact, and it does not write models.py.
C16_HaltsBeforeGeneration ==
    NothingDiscovered =>
        /\ pc \in {"discover", "check", "done"}
        /\ \A w \in Range(log) : w.run # run

\* an execution that found models.py without any entity has ended, with nothing
\* written
C16_Witness ==
    /\ present /\ models = <<>>
    /\ pc = "done" /\ run = 1
    /\ files = <<>> /\ log = <<>>

\* loading models.py as a module raises
LoadFails == present /\ loadResult \in {"ImportError", "Exception"}

\* C17: when loading models.py raises, an ImportError or any other exception,
\* discovery goes on with the text parser on the same file, generation starts
\* from the models the parser finds, and the execution raises nothing.
C17_LoadFailureFallsBackToParser ==
    LoadFails =>
        /\ pc = "discover" => ENABLED BeginParse
        /\ pc = "check" => models = ParseModelsFromFile(source)
        /\ pc # "raised"

\* after a load that raised an exception other than ImportError, the first
\* execution has generated artifacts for two parsed entities and ended
C17_Witness ==
    /\ loadResult = "Exception"
    /\ pc = "done" /\ run = 1
    /\ Len(models) = 2 /\ models[1].parsed
    /\ \A i \in 1..2 : RouteArtifacts(i) # {}

\* the positions of the class headers of models.py
ClassHeaders == {j \in 1..Len(source) : source[j].kind = "class"}

\* the block that starts at header j holds a __tablename__ line before the next
\* class header
Marked(j) ==
    \E t \in (j + 1)..Len(source) :
        /\ source[t].kind = "tablename"
        /\ \A n \in (j + 1)..t : source[n].kind # "class"

\* the text parser has read models.py and its result is the model list
ParsedFromSource ==
    /\ LoadFails /\ SourceAsRead
    /\ pc \notin {"discover", "parse"}

\* C18: on the text parser path a class block without a __tablename__ line
\* yields no descriptor, and every class block with one yields a descriptor,
\* wherever the unmarked block stands.
C18_UnmarkedBlockAloneIsSkipped ==
    ParsedFromSource =>
        /\ \A j \in ClassHeaders :
               Marked(j) <=> \E i \in 1..Len(models) : models[i].info.name = source[j].name
        /\ Len(models) = Cardinality({j \in ClassHeaders : Marked(j)})

\* the parser has read a file whose first class block has no __tablename__ and
\* whose second has one, and has extracted the second only
C18_Witness ==
    /\ ParsedFromSource /\ pc = "repair"
    /\ \E a, b \in ClassHeaders :
           /\ a < b /\ ~Marked(a) /\ Marked(b)
           /\ Len(models) = 1 /\ models[1].info.name = source[b].name

\* the artifacts of one entity, in the order run() writes them
EmissionOrder(info) ==
    <<File(info.table_name, "forms.py", NoRoutes),
      File(info.table_name, "routes.py", NoRoutes),
      File(info.table_name, "__init__.py", NoRoutes)>> \o TemplateFiles(info)

\* this execution of run() has written the file for entity i
WrittenInRun(i, f) ==
    \E w \in Range(log) :
        w.run = run /\ w.entity = i /\ w.dir = f.dir /\ w.file = f.file

\* the positions in the emission order of the artifacts of entity i that this
\* execution has written
Written(i) ==
    LET order == EmissionOrder(InfoOf(i))
    IN  {m \in 1..8 : WrittenInRun(i, order[m])}

\* every artifact ever written is on disk with the content of its last write
OnDiskAsWritten ==
    \A a \in 1..Len(log) :
        (/\ log[a].file # "models.py"
         /\ \A b \in (a + 1)..Len(log) :
                log[b].dir # log[a].dir \/ log[b].file # log[a].file)
        => \E f \in Range(files) :
               /\ f.dir = log[a].dir /\ f.file = log[a].file
               /\ f.routes = log[a].routes /\ f.rules = log[a].rules

EmissionFailed == pc = "raised" /\ Extractable

\* C19: when a write fails during the emission for entity k, the artifacts of
\* the entities before k are all written, those of k are written up to the
\* failing one in the order forms.py, routes.py, __init__.py, list.html,
\* form.html, view.html, macros; every written artifact is on disk as written,
\* and no artifact of a later entity is written.
C19_FailureLeavesWrittenArtifacts ==
    EmissionFailed =>
        /\ \A i \in 1..(k - 1) : Written(i) = 1..8
        /\ LET w == Written(k) IN \E n \in 0..7 : w = 1..n
        /\ \A i \in (k + 1)..Len(models) : Written(i) = {}
        /\ OnDiskAsWritten

\* the emission for the second of two entities has failed after forms.py,
\* routes.py, __init__.py, list.html and form.html were written
C19_Witness ==
    /\ EmissionFailed
    /\ k = 2 /\ Len(models) = 2
    /\ Written(1) = 1..8 /\ Written(2) = 1..5

\* the writes of models.py by this execution of run(), in order
SourceWrites == SelectSeq(log, LAMBDA w : w.run = run /\ w.file = "models.py")

\* the execution has gone through generation and has ended
RunCompleted == pc = "done" /\ models # <<>>

\* C20: during an execution of run() models.py is written by
\* fix_missing_foreign_keys only, and exactly once per execution; no other step
\* writes it.
C20_SourceWrittenByRepairOnly ==
    /\ \A n \in 1..Len(SourceWrites) : SourceWrites[n].by = "fix_missing_foreign_keys"
    /\ RunCompleted => Len(SourceWrites) = 1

\* C20, amended: an execution of run() writes models.py once in
\* fix_missing_foreign_keys and, after it, once more in add_user_model exactly
\* when the text the repair wrote holds no class User(UserMixin, db.Model); no
\* other step writes it, and the file holds the text of the last write.
C20_SourceWrittenByRepairThenAddUser ==
    LET sw == SourceWrites
    IN  /\ pc \notin {"adduser", "done"} => Len(sw) = 0
        /\ Len(sw) <= 2
        /\ Len(sw) >= 1 => sw[1].by = "fix_missing_foreign_keys"
        /\ Len(sw) = 2 => sw[2].by = "add_user_model" /\ ~HasUserModel(sw[1].lines)
        /\ Len(sw) >= 1 => source = sw[Len(sw)].lines
        /\ pc = "adduser" => Len(sw) = 1
        /\ RunCompleted => Len(sw) = (IF HasUserModel(sw[1].lines) THEN 1 ELSE 2)

\* an execution has ended after the repair wrote models.py and add_user_model
\* wrote it again, with the class User appended
C20_Witness ==
    /\ RunCompleted /\ run = 1
    /\ Len(SourceWrites) = 2
    /\ ~HasUserModel(SourceWrites[1].lines) /\ HasUserModel(SourceWrites[2].lines)

\* the table names of the descriptors of self.models, in order
TableNames == [i \in 1..Len(models) |-> InfoOf(i).table_name]

\* C21: in every run no two descriptors of the model list have the same table
\* name, and no file that the run writes for one entity is written again for
\* another entity.
C21_TableNamesUnique ==
    /\ Extractable =>
           \A i, j \in 1..Len(models) : TableNames[i] = TableNames[j] => i = j
    /\ \A a, b \in 1..Len(log) :
           (/\ log[a].run = run /\ log[b].run = run
            /\ log[a].entity > 0
            /\ log[a].dir = log[b].dir /\ log[a].file = log[b].file)
           => log[a].entity = log[b].entity

\* a DateTime field declared with default=datetime.utcnow
TimestampDefault(f) == f.type = "DateTime" /\ f.default = "datetime.utcnow"

\* the fields of a descriptor that are to get a rule in forms.py
FormFields(info) ==
    {f \in Range(info.fields) :
        ~f.primary_key /\ ~f.skip_in_form /\ ~TimestampDefault(f)}

\* the presence validator a field is to get
Presence(f) ==
    IF f.type = "Boolean" THEN "Optional()"
    ELSE IF f.nullable THEN "Optional()" ELSE "DataRequired()"

\* C22: the forms.py of an entity holds one rule for each field that is neither
\* the primary key, nor skip_in_form, nor a DateTime field with the
\* datetime.utcnow default, and for no other field; the rule of a Boolean field
\* is optional, that of any other non-nullable field required, that of any
\* other nullable field optional.
C22_RulesForFormFields ==
    \A i \in Entities : \A rules \in FormArtifacts(i) :
        LET info == InfoOf(i)
        IN  /\ {rules[j].name : j \in 1..Len(rules)} = {f.name : f \in FormFields(info)}
            /\ \A a, b \in 1..Len(rules) : rules[a].name = rules[b].name => a = b
            /\ \A j \in 1..Len(rules) : \A f \in FormFields(info) :
                   f.name = rules[j].name =>
                       rules[j].validators[1] = Validator(Presence(f), Empty)

\* the writes of the entity source by the repair pass in the current run
RepairWrites(lg) ==
    {n \in 1..Len(lg) : lg[n].run = run /\ lg[n].by = "fix_missing_foreign_keys"}

\* the finding's column line stands in the file new and did not stand in old
NewLine(old, new, missing_fk) ==
    /\ Occurrences(old, FkLine(missing_fk)) = 0
    /\ Occurrences(new, FkLine(missing_fk)) > 0

\* in the file new the new lines of two findings of one list stand in the order
\* given, with nothing between them but new lines of findings of that list
ContiguousInOrder(old, new, missing_fks, a, b) ==
    \E p, q \in 1..Len(new) :
        /\ p < q
        /\ new[p] = FkLine(missing_fks[a])
        /\ new[q] = FkLine(missing_fks[b])
        /\ \A h \in p..q : \E c \in a..b :
               new[h] = FkLine(missing_fks[c]) /\ NewLine(old, new, missing_fks[c])

\* C23: the repair pass writes the entity source exactly once, and what it
\* writes is the source with the insertions for all entities made; when an
\* entity has several findings, the column lines added for them stand
\* contiguously in the written source, in the order of the findings.
C23_OneWriteContiguousInOrder ==
    [][RepairStep =>
           /\ RepairWrites(log) = {}
           /\ RepairWrites(log') = {Len(log')}
           /\ log'[Len(log')].lines = source'
           /\ \A i \in Entities :
                  LET fks == InfoOf(i).missing_foreign_keys
                  IN  \A a, b \in 1..Len(fks) :
                          (/\ a < b
                           /\ FkLine(fks[a]) # FkLine(fks[b])
                           /\ NewLine(source, source', fks[a])
                           /\ NewLine(source, source', fks[b]))
                          => ContiguousInOrder(source, source', fks, a, b)]_vars

\* the repair pass has added the lines of two findings of one entity
C23_Witness ==
    /\ pc = "adduser"
    /\ \E i \in Entities :
           LET fks == InfoOf(i).missing_foreign_keys
           IN  \E a, b \in 1..Len(fks) :
                   /\ a < b
                   /\ FkLine(fks[a]) # FkLine(fks[b])
                   /\ Occurrences(source, FkLine(fks[a])) = 1
                   /\ Occurrences(source, FkLine(fks[b])) = 1
                   /\ log[Len(log)].by = "fix_missing_foreign_keys"
                   /\ Len(log[Len(log)].lines) = Len(source)

\* the stage a recorded write belongs to: 0 for the base template, the
\* position of the entity for an artifact, one more than the last position
\* for the entity source
StageOf(w) ==
    IF w.file = "models.py" THEN Len(models) + 1 ELSE w.entity

\* the writes of this execution are recorded stage after stage
WritesInStageOrder ==
    \A a \in 1..(Len(log) - 1) :
        (log[a].run = run /\ log[a + 1].run = run) =>
            StageOf(log[a]) <= StageOf(log[a + 1])

SpanToks(lines, i, e) ==
    lines[i].toks \o Flatten([n \in 1..(e - i) |-> FullToks(lines[i + n])])

\* the count of open parentheses, started at one for the parenthesis of
\* db.Column( on line i, is zero at the end of line i or somewhere on the
\* later line e
CountIsZeroOn(lines, i, e) ==
    IF e = i THEN 1 + ParenDelta(lines[i].toks) = 0
    ELSE \E m \in 1..Len(FullToks(lines[e])) :
             1 + ParenDelta(SpanToks(lines, i, e - 1))
               + ParenDelta(SubSeq(FullToks(lines[e]), 1, m)) = 0

\* the first line from i on which the count is zero, 0 when there is none
ClosingLine(lines, i) ==
    FirstIndex({e \in i..Len(lines) : CountIsZeroOn(lines, i, e)})

\* the declarations that are complete, each with the lines up to its closing
\* line, the scan going on at the line after it
RECURSIVE CompleteDeclarations(_, _)
CompleteDeclarations(lines, i) ==
    IF i > Len(lines) THEN <<>>
    ELSE IF lines[i].kind = "column" /\ ClosingLine(lines, i) > 0
    THEN <<ColDef(lines[i].name, RStripParen(SpanToks(lines, i, ClosingLine(lines, i))))>>
         \o CompleteDeclarations(lines, ClosingLine(lines, i) + 1)
    ELSE CompleteDeclarations(lines, i + 1)

\* the block of a parsed entity goes through the line-by-line rescan
Rescanned(i) ==
    /\ models[i].parsed
    /\ Len(SimpleColumnLines(BlockOf(i))) < MinSimpleColumns

\* C25: the line-by-line rescan accepts a column declaration only when the
\* count of open parentheses, started at the parenthesis of db.Column(, has
\* come back to zero; the declaration is made of the lines up to and including
\* the one on which the count is zero, and the scan goes on at the next line.
C25_RescanAcceptsBalancedDeclarations ==
    SourceAsRead =>
        \A i \in Entities :
            Rescanned(i) =>
                /\ ColumnLines(BlockOf(i)) = CompleteDeclarations(BlockOf(i), 1)
                /\ FieldSet(InfoOf(i))
                       = {d.name : d \in Range(CompleteDeclarations(BlockOf(i), 1))}

\* entity i declares a column with a foreign key into the users table
HasOwnerColumn(i) ==
    \E d \in FkColumnDeclarations(i) : OwnerTable \in ReferencedTables(d)

\* the associations of entity i, as extracted, whose target is the User class
OwnerAssociations(i) ==
    {r \in Range(InfoOf(i).relationships) : r.target_model = UserName}

\* C26: on the text parser path an association to the User class, declared on
\* an entity that has a foreign key column into the users table, has no
\* missing-foreign-key finding, so that the repair pass adds no second owner
\* column to the entity.
C26_NoFindingForOwnerAssociation ==
    SourceAsRead =>
        \A i \in Entities :
            (models[i].parsed /\ HasOwnerColumn(i)) =>
                \A r \in OwnerAssociations(i) : ~FindingFor(i, r.name)

\* the repair pass of execution r has added a line to the entity source
RepairActed(r) ==
    \E w \in Range(log) :
        /\ w.run = r /\ w.by = "fix_missing_foreign_keys"
        /\ Len(w.lines) > w.before

\* the execution has discovered its models
Discovered == pc \notin {"discover", "parse"}

\* C27: after an execution whose repair pass has added columns, the next
\* execution finds no missing foreign key for any entity it extracts from the
\* repaired source, and its repair pass adds nothing: the repair reaches a
\* fixed point after one execution.
C27_RepairReachesFixedPoint ==
    (run > 1 /\ RepairActed(run - 1)) =>
        /\ Discovered => \A i \in Entities : InfoOf(i).missing_foreign_keys = <<>>
        /\ ~RepairActed(run)

\* the field names of the entries of foreign_key_relationships
LinkFields(info) == {l.field_name : l \in Range(info.foreign_key_relationships)}

\* C28: in every descriptor, on either path, non_user_fk_count is the number
\* of entries of foreign_key_relationships, and every column declared with a
\* foreign key is the user_fk_field or the field_name of one of the entries.
C28_CountMatchesLinks ==
    SourceAsRead =>
        \A i \in Entities :
            LET info == InfoOf(i)
            IN  /\ info.non_user_fk_count = Len(info.foreign_key_relationships)
                /\ \A d \in FkColumnDeclarations(i) :
                       d.name = info.user_fk_field \/ d.name \in LinkFields(info)

\* the statements of an add-child route that persist the child
PersistOps == {"db.session.add(item)", "db.session.commit()"}

\* the add-child route loads the parent, compares the parent's owner field
\* with the current user and redirects on mismatch, and only then persists
ParentCheckedBeforePersist(body, user_fk_field) ==
    \E c \in 1..Len(body) :
        /\ IsOwnerCheck(body[c]) /\ body[c].arg = user_fk_field
        /\ \E l \in 1..(c - 1) : body[l].op = "parent = Parent.query.get_or_404(pk)"
        /\ \A j \in 1..Len(body) : body[j].op \in PersistOps => c < j

\* C29: for a parent entity with user_fk_field set, every add-child route in
\* its routes.py compares the loaded parent's owner field with the current
\* user and redirects on mismatch before the child is added and committed.
C29_AddChildChecksParentOwner ==
    \A i \in Entities : \A routes \in RouteArtifacts(i) :
        InfoOf(i).user_fk_field # None =>
            \A c \in 1..Len(routes.add_child) :
                ParentCheckedBeforePersist(routes.add_child[c].body,
                                           InfoOf(i).user_fk_field)

\* every column declaration of the block is on one line
AllSingleLine(block) ==
    Len(SelectSeq(block, LAMBDA l : l.kind = "column")) = Len(SimpleColumnLines(block))

\* fields, user_fk_field, non_user_fk_count and foreign_key_relationships as
\* they follow from the definitions the single-line pattern finds
BySinglePattern(block) ==
    ParseColumns(SimpleColumnLines(block),
                 [fields |-> <<>>, user_fk_field |-> None,
                  non_user_fk_count |-> 0, foreign_key_relationships |-> <<>>])

\* C30: for a block whose column declarations are all on one line and that
\* goes through the line-by-line rescan, the descriptor has for every
\* declaration the field (type, max_length, flags) and the foreign key
\* classification (referenced table, owner field, count) that the single-line
\* pattern yields for that declaration.
C30_RescanAgreesWithSinglePattern ==
    SourceAsRead =>
        \A i \in Entities :
            (Rescanned(i) /\ AllSingleLine(BlockOf(i))) =>
                LET info == InfoOf(i)
                    one  == BySinglePattern(BlockOf(i))
                IN  /\ info.fields = one.fields
                    /\ info.user_fk_field = one.user_fk_field
                    /\ info.non_user_fk_count = one.non_user_fk_count
                    /\ info.foreign_key_relationships = one.foreign_key_relationships

====
